---- MODULE Spec2Model ----
(***************************************************************************)
(* Goblin, a REPL for Go (src/goblin.go): the source reassembly engine     *)
(* (separateCodeParts, executeCode), the buffer editor of the command loop *)
(* (main), and the runner of system commands (handleSys) with the          *)
(* goroutines it starts.                                                   *)
(*                                                                         *)
(* Text.  A line of text is a sequence of characters.  A character of the  *)
(* model is a one-byte string that is not a word byte (a blank, a tab, a   *)
(* quote, a bracket, ...) or a maximal run of word bytes [0-9A-Za-z_]      *)
(* written as one string ("import", "fmt", "1").  The regular expressions  *)
(* of the source only ever ask for a literal word followed by a non-word   *)
(* byte or for a run of bytes of one class, so they read the same on runs  *)
(* as on single bytes.  A block of text whose lines all end in "\n" is the *)
(* sequence of its lines.                                                  *)
(***************************************************************************)
EXTENDS Integers, Sequences, FiniteSets, TLC

VARIABLES
    \* ---- the command loop (main) ----
    codeLines,              \* var codeLines []string
    nextInputReplacesLine,  \* 0 = append, n > 0 = the next input replaces line n
    bufferDirty,            \* var bufferDirty bool
    currentSnippetName,     \* var currentSnippetName string ("" = none)
    lastLoadedFilePath,     \* var lastLoadedFilePath string ("" = none)
    files,                  \* the snippet directory: name -> text, or NoFile
    pc,                     \* where the command loop is: "loop", "panic", "exit"
    notice,                 \* what the last iteration showed on the terminal
    diskRoom,               \* the snippet directory takes a text of fewer lines than this
    \* ---- one call of executeCode: separateCodeParts, then the template ----
    lines,                  \* strings.Split(code, "\n")
    idx,                    \* the position of the for loop in lines (1-based)
    inImportBlock,
    inGlobalDeclBlock,
    inFuncDecl,
    braceCount,
    userImports,            \* userImportsBuilder
    topLevelDeclarations,   \* topLevelDeclarationsBuilder
    statements,             \* statementsBuilder
    fullCode,               \* the source executeCode assembled, <<>> before
    toolchain,              \* how executeCode ended: "notrun", "ok", "exit", "nostart", "nowrite"
    \* ---- one call of handleSys and the goroutines it starts ----
    hsPc,                   \* where handleSys is: "idle", "args", "pipes", ..., "returned"
    sysArgs,                \* args of the call: <<>> or the command
    terminal,               \* the mode of the terminal: "cooked" or "raw"
    originalTerminalState,  \* var originalTerminalState *term.State: "nil" or "saved"
    proc,                   \* the command: "none", "running", "exited", "reaped"
    written,                \* the lines the command wrote to each of its streams
    pipe,                   \* per stream: the lines in the pipe, and whether the read end is closed
    printed,                \* the lines each streaming goroutine printed
    readerPc,               \* the streaming goroutines: "none", "scan", "done"
    waiterPc,               \* the goroutine of cmd.Wait(): "none", "wait", "send", "done"
    listenerPc,             \* keyPressListener: "none", "getfl", "setfl", "poll", "done"
    escapePressedChan,      \* the number of values in each channel (capacity 1)
    keyListenerStoppedChan,
    cmdDone,
    stopKeyListenerChan,    \* "open" or "closed"
    sigterm                 \* what the command was when SIGTERM was sent: "none" = not sent

sysVars == <<hsPc, sysArgs, terminal, originalTerminalState, proc, written, pipe, printed,
             readerPc, waiterPc, listenerPc, escapePressedChan, keyListenerStoppedChan,
             cmdDone, stopKeyListenerChan, sigterm>>
replVars == <<codeLines, nextInputReplacesLine, bufferDirty, currentSnippetName,
              lastLoadedFilePath, files, pc, notice, diskRoom, sysVars>>
vars == <<codeLines, nextInputReplacesLine, bufferDirty, currentSnippetName,
          lastLoadedFilePath, files, pc, notice, diskRoom,
          lines, idx, inImportBlock, inGlobalDeclBlock, inFuncDecl, braceCount,
          userImports, topLevelDeclarations, statements, fullCode, toolchain, sysVars>>

(***************************************************************************)
(* Bounds of the model.                                                    *)
(***************************************************************************)
\* the longest buffer handed to separateCodeParts
MaxLines == 3

(***************************************************************************)
(* Characters and strings.                                                 *)
(***************************************************************************)
\* unicode.IsSpace, as far as a line read from the terminal can hold it
WhiteSpace == {" ", "\t"}

\* the bytes outside [0-9A-Za-z_] that the modelled lines use
NonWord == WhiteSpace \cup {"\"", "(", ")", "{", "}", "/", ".", "-", ":", "=", ",", ";"}

\* \w+ : a run of word bytes
IsWord(c) == c \notin NonWord

\* the sequences over S of length 0..n
SeqsUpTo(S, n) == UNION {[1..k -> S] : k \in 0..n}

\* a count that leaves out the characters inside string literals
RECURSIVE CountFrom(_, _, _)
CountFrom(line, c, inString) ==
    IF line = <<>> THEN 0
    ELSE IF Head(line) = "\"" THEN CountFrom(Tail(line), c, ~inString)
    ELSE (IF Head(line) = c /\ ~inString THEN 1 ELSE 0) + CountFrom(Tail(line), c, inString)

CountOutsideLiterals(line, c) == CountFrom(line, c, FALSE)

\* strings.Count(line, c) for a one-byte c
RECURSIVE Count(_, _)
Count(line, c) ==
    IF line = <<>> THEN 0
    ELSE (IF Head(line) = c THEN 1 ELSE 0) + Count(Tail(line), c)

RECURSIVE TrimLeft(_)
TrimLeft(s) ==
    IF s # <<>> /\ Head(s) \in WhiteSpace THEN TrimLeft(Tail(s)) ELSE s

RECURSIVE TrimRight(_)
TrimRight(s) ==
    IF s # <<>> /\ s[Len(s)] \in WhiteSpace THEN TrimRight(SubSeq(s, 1, Len(s) - 1)) ELSE s

\* strings.TrimSpace
TrimSpace(s) == TrimRight(TrimLeft(s))

\* strings.HasSuffix(s, c) for a one-byte c
HasSuffix(s, c) == s # <<>> /\ s[Len(s)] = c

(***************************************************************************)
(* The regular expressions of separateCodeParts, on a trimmed line.        *)
(***************************************************************************)
\* ^import\s*\($
ImportGroupMatch(t) ==
    /\ Len(t) >= 2
    /\ t[1] = "import"
    /\ t[Len(t)] = "("
    /\ \A i \in 2..(Len(t) - 1) : t[i] \in WhiteSpace

\* a byte of the class [\w/.]
IsPathChar(c) == IsWord(c) \/ c \in {"/", "."}

\* \"?[\w/.]+\"?$ : an optional quote, one or more path bytes, an optional quote
QuotedPathMatch(r) ==
    LET a == IF r # <<>> /\ r[1] = "\"" THEN 1 ELSE 0
        b == IF Len(r) > a /\ r[Len(r)] = "\"" THEN 1 ELSE 0
    IN  /\ Len(r) - a - b >= 1
        /\ \A i \in (a + 1)..(Len(r) - b) : IsPathChar(r[i])

\* what follows `import` and its blanks: the text of the capture group
ImportSingleCapture(t) == TrimLeft(Tail(t))

\* ^import\s+(\"?[\w/.]+\"?)$
ImportSingleMatch(t) ==
    /\ Len(t) >= 3
    /\ t[1] = "import"
    /\ t[2] \in WhiteSpace
    /\ QuotedPathMatch(ImportSingleCapture(t))

\* ^(var|const|type)\s+
GlobalDeclStartMatch(t) ==
    Len(t) >= 2 /\ t[1] \in {"var", "const", "type"} /\ t[2] \in WhiteSpace

\* ^func\s+
FuncDeclStartMatch(t) ==
    Len(t) >= 2 /\ t[1] = "func" /\ t[2] \in WhiteSpace

(***************************************************************************)
(* separateCodeParts: one iteration of its loop over the lines.  st holds  *)
(* the locals of the function; the result is st after the iteration.       *)
(***************************************************************************)
\* the locals before the first line
InitialParts ==
    [inImportBlock |-> FALSE, inGlobalDeclBlock |-> FALSE, inFuncDecl |-> FALSE,
     braceCount |-> 0, userImports |-> <<>>, topLevelDeclarations |-> <<>>,
     statements |-> <<>>]

\* an import group is open: count the parentheses of the raw line
InImportBlockLine(st, line) ==
    LET bc == st.braceCount + Count(line, "(") - Count(line, ")")
    IN  IF bc <= 0
        THEN [st EXCEPT !.inImportBlock = FALSE, !.braceCount = 0]
        ELSE [st EXCEPT !.braceCount = bc, !.userImports = Append(@, line)]

\* a single-line import: a tab and the captured path
ImportSingleLine(st, t) ==
    [st EXCEPT !.userImports = Append(@, <<"\t">> \o ImportSingleCapture(t))]

\* a faulty branch for var, const and type: a line that ends with `{` opens a
\* block as one that ends with `(` does
GlobalDeclLineBraces(st, line, t) ==
    IF HasSuffix(t, "(") \/ HasSuffix(t, "{")
    THEN [st EXCEPT !.inGlobalDeclBlock = TRUE,
                    !.topLevelDeclarations = Append(@, line),
                    !.braceCount = @ + 1]
    ELSE [st EXCEPT !.topLevelDeclarations = Append(@, line)]

\* a line that starts with var, const or type
GlobalDeclLine(st, line, t) ==
    IF HasSuffix(t, "(")
    THEN [st EXCEPT !.inGlobalDeclBlock = TRUE,
                    !.topLevelDeclarations = Append(@, line),
                    !.braceCount = @ + Count(line, "(") - Count(line, ")")]
    ELSE [st EXCEPT !.topLevelDeclarations = Append(@, line)]

\* a faulty branch for an open var/const/type group: a blank line is not written
InGlobalDeclBlockLineSkipsBlank(st, line) ==
    LET bc == st.braceCount + Count(line, "(") - Count(line, ")")
    IN  IF TrimSpace(line) = <<>>
        THEN st
        ELSE IF bc <= 0
        THEN [st EXCEPT !.topLevelDeclarations = Append(@, line),
                        !.inGlobalDeclBlock = FALSE, !.braceCount = 0]
        ELSE [st EXCEPT !.topLevelDeclarations = Append(@, line), !.braceCount = bc]

\* a var/const/type group is open
InGlobalDeclBlockLine(st, line) ==
    LET bc == st.braceCount + Count(line, "(") - Count(line, ")")
    IN  IF bc <= 0
        THEN [st EXCEPT !.topLevelDeclarations = Append(@, line),
                        !.inGlobalDeclBlock = FALSE, !.braceCount = 0]
        ELSE [st EXCEPT !.topLevelDeclarations = Append(@, line), !.braceCount = bc]

\* a line that starts with func
FuncDeclStartLine(st, line) ==
    [st EXCEPT !.inFuncDecl = TRUE,
               !.topLevelDeclarations = Append(@, line),
               !.braceCount = @ + Count(line, "{") - Count(line, "}")]

\* a function declaration is open
InFuncDeclLine(st, line) ==
    LET bc == st.braceCount + Count(line, "{") - Count(line, "}")
    IN  IF bc <= 0
        THEN [st EXCEPT !.topLevelDeclarations = Append(@, line),
                        !.inFuncDecl = FALSE, !.braceCount = 0]
        ELSE [st EXCEPT !.topLevelDeclarations = Append(@, line), !.braceCount = bc]

\* everything else
StatementLine(st, line, t) ==
    IF t # <<>> THEN [st EXCEPT !.statements = Append(@, line)] ELSE st

\* the body of the for loop, for one line
Classify(st, line) ==
    LET t == TrimSpace(line)
    IN  IF t = <<>> /\ ~st.inImportBlock /\ ~st.inGlobalDeclBlock /\ ~st.inFuncDecl
        THEN st
        ELSE IF ImportGroupMatch(t)
        THEN [st EXCEPT !.inImportBlock = TRUE, !.braceCount = 1]
        ELSE IF st.inImportBlock
        THEN InImportBlockLine(st, line)
        ELSE IF ImportSingleMatch(t)
        THEN ImportSingleLine(st, t)
        ELSE IF ~st.inFuncDecl /\ ~st.inImportBlock /\ GlobalDeclStartMatch(t)
        THEN GlobalDeclLine(st, line, t)
        ELSE IF st.inGlobalDeclBlock
        THEN InGlobalDeclBlockLine(st, line)
        ELSE IF ~st.inImportBlock /\ ~st.inGlobalDeclBlock /\ FuncDeclStartMatch(t)
        THEN FuncDeclStartLine(st, line)
        ELSE IF st.inFuncDecl
        THEN InFuncDeclLine(st, line)
        ELSE StatementLine(st, line, t)

\* strings.Split(strings.Join(buf, "\n"), "\n"): the empty buffer is one empty line
SplitJoin(buf) == IF buf = <<>> THEN << <<>> >> ELSE buf

\* separateCodeParts(strings.Join(buf, "\n")) as a function of the buffer
RECURSIVE ClassifyAll(_, _)
ClassifyAll(st, ls) ==
    IF ls = <<>> THEN st ELSE ClassifyAll(Classify(st, Head(ls)), Tail(ls))

SeparateCodeParts(buf) == ClassifyAll(InitialParts, SplitJoin(buf))

(***************************************************************************)
(* executeCode: the template and the toolchain.                            *)
(***************************************************************************)
\* an assembly without the comment lines that close the blocks
CodeTemplateBare(imports, decls, stmts) ==
    << <<>>, <<"package", " ", "main">>, <<>>, <<"import", " ", "(">>,
       <<"\t", "\"", "fmt", "\"">> >>
    \o imports \o << <<")">>, <<>> >> \o decls
    \o << <<>>, <<"func", " ", "main", "(", ")", " ", "{">> >> \o stmts \o << <<"}">> >>

\* fmt.Sprintf(codeTemplate, imports, decls, stmts), line by line.  Each block
\* is empty or ends in "\n", so the comment that follows a %s is a line of its own.
CodeTemplate(imports, decls, stmts) ==
    << <<>>,
       <<"package", " ", "main">>,
       <<>>,
       <<"import", " ", "(">>,
       <<"\t", "\"", "fmt", "\"">> >>
    \o imports
    \o << <<" ", "/", "/", " ", "User", "-", "provided", " ", "imports">>,
          <<")">>,
          <<>> >>
    \o decls
    \o << <<" ", "/", "/", " ", "Global", " ", "variables", ",", " ", "constants", ",",
            " ", "types", ",", " ", "and", " ", "functions">>,
          <<>>,
          <<"func", " ", "main", "(", ")", " ", "{">> >>
    \o stmts
    \o << <<" ", "/", "/", " ", "Statements">>,
          <<"}">> >>

\* the import specs of an assembled source: the quoted paths between the
\* `import (` of the template (line 4) and the first line that is `)`
ImportSpecs(src) ==
    LET close == CHOOSE k \in 5..Len(src) :
                     /\ TrimSpace(src[k]) = <<")">>
                     /\ \A j \in 5..(k - 1) : TrimSpace(src[j]) # <<")">>
    IN  [i \in 1..(close - 5) |-> TrimSpace(src[i + 4])]

\* the compiler rejects a file that imports one path twice under the same name
\* ("fmt redeclared in this block")
DuplicateImport(src) ==
    LET specs == ImportSpecs(src)
    IN  \E i, j \in 1..Len(specs) :
            i < j /\ specs[i] = specs[j] /\ specs[i] # <<>> /\ specs[i][1] = "\""

\* how executeCode can end on src: "nowrite" (the temporary directory or file
\* could not be written), "nostart" (the go command could not be started),
\* "exit" (an *exec.ExitError: it did not compile, or exited non-zero), "ok"
GoRunOutcomes(src) ==
    IF DuplicateImport(src) THEN {"nowrite", "nostart", "exit"}
    ELSE {"nowrite", "nostart", "exit", "ok"}

\* whether the error executeCode returns is non-nil: the errors of steps 2 and
\* 3, and  if exitErr, ok := err.(*exec.ExitError); ok
ExecErr(outcome) == outcome \in {"nowrite", "exit"}

(***************************************************************************)
(* The lines handed to separateCodeParts.                                  *)
(***************************************************************************)
Empty        == <<>>
ImportFmt    == <<"import", " ", "\"", "fmt", "\"">>
ImportOs     == <<" ", "import", " ", " ", "\"", "os", "\"", " ">>
ImportHyphen == <<"import", " ", "\"", "github", ".", "com", "/", "mattn", "/", "go", "-",
                  "isatty", "\"">>
ImportOpen   == <<"import", " ", "(">>
PathOs       == <<"\t", "\"", "os", "\"">>
CloseParen   == <<")">>
VarOpen      == <<"var", " ", "(">>
FieldX       == <<"\t", "x", " ", "int">>
FuncOne      == <<"func", " ", "f", "(", ")", " ", "{", "}">>
FuncOpen     == <<"func", " ", "g", "(", ")", " ", "{">>
CloseBrace   == <<"}">>
PrintOne     == <<"fmt", ".", "Println", "(", "1", ")">>
StrBrace     == <<"s", " ", ":", "=", " ", "\"", "}", "\"">>
TypeOpen     == <<"type", " ", "T", " ", "struct", " ", "{">>

PartLines == {Empty, ImportFmt, ImportOs, ImportHyphen, ImportOpen, PathOs, CloseParen,
              VarOpen, FieldX, FuncOne, FuncOpen, CloseBrace, PrintOne, StrBrace,
              TypeOpen}

(***************************************************************************)
(* The state of the command loop before the first input.                   *)
(***************************************************************************)
\* the value of a name under which the directory holds no file
NoFile == << <<"<absent>">> >>

SnippetNames == {"a", "b", "ts"}

\* what an iteration of the loop showed: the message, the line number in it,
\* and the answer typed at its save prompt ("-": it did not prompt)
Note(m, n) == [msg |-> m, n |-> n, answer |-> "-"]

\* the same for an iteration that went through promptToSave
Asked(m, a) == [msg |-> m, n |-> 0, answer |-> a]

\* the two streams of a command
Streams == {"stdout", "stderr"}

\* no call of handleSys has been made: the terminal is in the mode readline
\* leaves it in between two reads, no command and no goroutine exists
InitSys ==
    /\ hsPc = "idle"
    /\ sysArgs = <<>>
    /\ terminal = "cooked"
    /\ originalTerminalState = "nil"
    /\ proc = "none"
    /\ written = [s \in Streams |-> 0]
    /\ pipe = [s \in Streams |-> [lines |-> 0, closed |-> FALSE]]
    /\ printed = [s \in Streams |-> 0]
    /\ readerPc = [s \in Streams |-> "none"]
    /\ waiterPc = "none"
    /\ listenerPc = "none"
    /\ escapePressedChan = 0
    /\ keyListenerStoppedChan = 0
    /\ cmdDone = 0
    /\ stopKeyListenerChan = "open"
    /\ sigterm = "none"

InitLoop ==
    /\ InitSys
    /\ nextInputReplacesLine = 0
    /\ bufferDirty = FALSE
    /\ currentSnippetName = ""
    /\ lastLoadedFilePath = ""
    /\ pc = "loop"
    /\ notice = Note("banner", 0)

(***************************************************************************)
(* SpecPart: executeCode on a buffer, one loop iteration of                *)
(* separateCodeParts at a time.                                            *)
(***************************************************************************)
Locals ==
    [inImportBlock |-> inImportBlock, inGlobalDeclBlock |-> inGlobalDeclBlock,
     inFuncDecl |-> inFuncDecl, braceCount |-> braceCount,
     userImports |-> userImports, topLevelDeclarations |-> topLevelDeclarations,
     statements |-> statements]

SetLocals(st) ==
    /\ inImportBlock' = st.inImportBlock
    /\ inGlobalDeclBlock' = st.inGlobalDeclBlock
    /\ inFuncDecl' = st.inFuncDecl
    /\ braceCount' = st.braceCount
    /\ userImports' = st.userImports
    /\ topLevelDeclarations' = st.topLevelDeclarations
    /\ statements' = st.statements

InitPartOn(buf) ==
    /\ lines = SplitJoin(buf)
    /\ idx = 1
    /\ inImportBlock = FALSE
    /\ inGlobalDeclBlock = FALSE
    /\ inFuncDecl = FALSE
    /\ braceCount = 0
    /\ userImports = <<>>
    /\ topLevelDeclarations = <<>>
    /\ statements = <<>>
    /\ fullCode = <<>>
    /\ toolchain = "notrun"

InitPart ==
    /\ codeLines \in SeqsUpTo(PartLines, MaxLines)
    /\ InitLoop
    /\ files = [n \in SnippetNames |-> NoFile]
    /\ diskRoom = 0
    /\ InitPartOn(codeLines)

\* separateCodeParts has returned
Separated == idx > Len(lines)

\* for _, line := range lines { ... }
ProcessLine ==
    /\ ~Separated
    /\ SetLocals(Classify(Locals, lines[idx]))
    /\ idx' = idx + 1
    /\ UNCHANGED <<lines, fullCode, toolchain>>
    /\ UNCHANGED replVars

\* fullCode := fmt.Sprintf(codeTemplate, ...)
Assemble ==
    /\ Separated
    /\ fullCode = <<>>
    /\ fullCode' = CodeTemplate(userImports, topLevelDeclarations, statements)
    /\ UNCHANGED <<lines, idx, inImportBlock, inGlobalDeclBlock, inFuncDecl, braceCount,
                   userImports, topLevelDeclarations, statements, toolchain>>
    /\ UNCHANGED replVars

\* cmd.CombinedOutput(), the return of executeCode and the status line of :run
GoRun ==
    /\ fullCode # <<>>
    /\ toolchain = "notrun"
    /\ toolchain' \in GoRunOutcomes(fullCode)
    /\ notice' = Note(IF ExecErr(toolchain') THEN "finished with error status"
                      ELSE "execution successful", 0)
    /\ UNCHANGED <<lines, idx, inImportBlock, inGlobalDeclBlock, inFuncDecl, braceCount,
                   userImports, topLevelDeclarations, statements, fullCode>>
    /\ UNCHANGED <<codeLines, nextInputReplacesLine, bufferDirty, currentSnippetName,
                   lastLoadedFilePath, files, pc, diskRoom, sysVars>>

NextPart == ProcessLine \/ Assemble \/ GoRun

SpecPart == InitPart /\ [][NextPart]_vars

(***************************************************************************)
(* SpecCalls: one call of executeCode after another, each on the buffer of *)
(* its :run.  The lines open an import group, a var group and a function,  *)
(* so that a call can return inside an unclosed block.                     *)
(***************************************************************************)
CallLines == {ImportOpen, VarOpen, FuncOpen, PrintOne, CloseBrace}

CallBuffers == SeqsUpTo(CallLines, MaxLines)

InitCalls ==
    /\ codeLines \in CallBuffers
    /\ InitLoop
    /\ files = [n \in SnippetNames |-> NoFile]
    /\ diskRoom = 0
    /\ InitPartOn(codeLines)

\* a next call that finds the flags and the builders as the last call left them
RunAgainStale(buf) ==
    /\ toolchain # "notrun"
    /\ codeLines' = buf
    /\ lines' = SplitJoin(buf)
    /\ idx' = 1
    /\ fullCode' = <<>>
    /\ toolchain' = "notrun"
    /\ UNCHANGED <<inImportBlock, inGlobalDeclBlock, inFuncDecl, braceCount, userImports,
                   topLevelDeclarations, statements>>
    /\ UNCHANGED <<nextInputReplacesLine, bufferDirty, currentSnippetName,
                   lastLoadedFilePath, files, pc, notice, diskRoom, sysVars>>

\* the next :run, on the buffer buf: executeCode calls separateCodeParts, whose
\* builders and flags are locals declared at its entry
RunAgain(buf) ==
    /\ toolchain # "notrun"
    /\ codeLines' = buf
    /\ lines' = SplitJoin(buf)
    /\ idx' = 1
    /\ SetLocals(InitialParts)
    /\ fullCode' = <<>>
    /\ toolchain' = "notrun"
    /\ UNCHANGED <<nextInputReplacesLine, bufferDirty, currentSnippetName,
                   lastLoadedFilePath, files, pc, notice, diskRoom, sysVars>>

NextCalls == ProcessLine \/ Assemble \/ GoRun \/ \E buf \in CallBuffers : RunAgain(buf)

SpecCalls == InitCalls /\ [][NextCalls]_vars

(***************************************************************************)
(* go/format.Source, as handleTidy uses it.  The formatter is a library,   *)
(* not code of the repository: it is modelled on the line shapes of the    *)
(* model, whose interior spacing is already canonical.  It rejects a       *)
(* source whose brackets or quotes do not pair up or whose lines sit where *)
(* the grammar does not allow them; it re-indents accepted lines by their  *)
(* nesting depth, keeps at most one blank line, none after `(` or before   *)
(* `)`, sorts and de-duplicates the import specs, and separates top-level  *)
(* declarations of different kinds by a blank line.                        *)
(***************************************************************************)
\* n tabs
Tabs(n) == [i \in 1..n |-> "\t"]

\* the characters of a line outside its string literals
RECURSIVE OutsideStrings(_, _)
OutsideStrings(line, inString) ==
    IF line = <<>> THEN <<>>
    ELSE IF Head(line) = "\"" THEN OutsideStrings(Tail(line), ~inString)
    ELSE IF inString THEN OutsideStrings(Tail(line), inString)
    ELSE <<Head(line)>> \o OutsideStrings(Tail(line), inString)

\* brackets opened minus brackets closed by the code of a line (the printer's
\* indentation)
NetDepth(line) ==
    LET c == OutsideStrings(line, FALSE)
    IN  Count(c, "(") + Count(c, "{") - Count(c, ")") - Count(c, "}")

TopLevelKeywords == {"package", "import", "var", "const", "type", "func"}

IsComment(t) == Len(t) >= 2 /\ t[1] = "/" /\ t[2] = "/"

\* an import spec: a quoted path, after a name or not
IsImportSpec(t) ==
    LET path == IF t # <<>> /\ IsWord(t[1]) THEN TrimLeft(Tail(t)) ELSE t
    IN  /\ Len(path) >= 3
        /\ path[1] = "\"" /\ path[Len(path)] = "\""
        /\ Count(path, "\"") = 2
        /\ (path # t => (Len(t) > Len(path) + 1 /\ t[1] \notin TopLevelKeywords))

\* the words no identifier can be
Keywords == TopLevelKeywords \cup {"struct", "interface", "return", "if", "for", "go", "defer"}

\* the line holds as many ( as ) and as many { as } outside its strings
SelfClosed(t) ==
    LET c == OutsideStrings(t, FALSE)
    IN  Count(c, "(") = Count(c, ")") /\ Count(c, "{") = Count(c, "}")

\* the line is a list of bare words: x int
BareWords(t) == Len(t) >= 3 /\ \A i \in 1..Len(t) : IsWord(t[i]) \/ t[i] \in WhiteSpace

\* what a line opens: "body" (a block of statements), "specs" (a group of var,
\* const or type specs), "fields" (a struct or interface type), or "" (nothing)
Opens(t) ==
    IF HasSuffix(t, "{") /\ SelfClosed(SubSeq(t, 1, Len(t) - 1))
    THEN IF \E i \in 1..Len(t) : t[i] \in {"struct", "interface"} THEN "fields" ELSE "body"
    ELSE IF HasSuffix(t, "(") /\ GlobalDeclStartMatch(t)
            /\ \A i \in 2..(Len(t) - 1) : t[i] \in WhiteSpace
    THEN "specs"
    ELSE ""

\* the line is one the grammar allows where it stands; open is the stack of
\* what the lines before it opened and did not close
LineParses(t, open) ==
    LET top == IF open = <<>> THEN "" ELSE open[Len(open)]
    IN  /\ Count(t, "\"") % 2 = 0
        /\ Opens(t) # "" \/ SelfClosed(t)
        /\ top = "" => /\ t[1] \in TopLevelKeywords \ {"package", "import"}
                       /\ Len(t) >= 3 /\ t[2] \in WhiteSpace
        /\ top = "body" => /\ t[1] \notin {"package", "import", ":", "=", ",", ".", ";", ")", "}"}
                           /\ ~FuncDeclStartMatch(t)
                           /\ ~BareWords(t)
        /\ top \in {"specs", "fields"} => /\ IsWord(t[1]) /\ t[1] \notin Keywords
                                          /\ Len(t) >= 2 => t[2] \in WhiteSpace \cup {",", "="}

\* the parser's verdict, line by line; open is the stack of what is open
\* before the line, inImports whether the line stands in an import group
RECURSIVE ParsesFrom(_, _, _)
ParsesFrom(src, open, inImports) ==
    IF src = <<>> THEN open = <<>> /\ ~inImports
    ELSE LET t == TrimSpace(Head(src))
             top == IF open = <<>> THEN "" ELSE open[Len(open)]
         IN  IF t = <<>> \/ IsComment(t) THEN ParsesFrom(Tail(src), open, inImports)
             ELSE IF inImports
             THEN IF t = <<")">> THEN ParsesFrom(Tail(src), open, FALSE)
                  ELSE IsImportSpec(t) /\ ParsesFrom(Tail(src), open, TRUE)
             ELSE IF open = <<>> /\ t[1] = "package"
             THEN Len(t) = 3 /\ t[2] \in WhiteSpace /\ IsWord(t[3])
                  /\ ParsesFrom(Tail(src), open, FALSE)
             ELSE IF open = <<>> /\ t[1] = "import"
             THEN \/ ImportGroupMatch(t) /\ ParsesFrom(Tail(src), open, TRUE)
                  \/ /\ Len(t) >= 3 /\ t[2] \in WhiteSpace
                     /\ \/ IsImportSpec(TrimLeft(Tail(t)))
                        \/ TrimLeft(Tail(t)) = <<"(", ")">>
                     /\ ParsesFrom(Tail(src), open, FALSE)
             ELSE IF t = <<"}">>
             THEN top \in {"body", "fields"}
                  /\ ParsesFrom(Tail(src), SubSeq(open, 1, Len(open) - 1), FALSE)
             ELSE IF t = <<")">>
             THEN top = "specs"
                  /\ ParsesFrom(Tail(src), SubSeq(open, 1, Len(open) - 1), FALSE)
             ELSE /\ LineParses(t, open)
                  /\ ParsesFrom(Tail(src),
                                IF Opens(t) = "" THEN open ELSE Append(open, Opens(t)), FALSE)

\* "imports must appear before other declarations": no line that starts an
\* import declaration follows a line that starts another declaration
ImportsFirst(src) ==
    \A i \in 1..Len(src), j \in 1..Len(src) :
        LET a == TrimSpace(src[i])
            b == TrimSpace(src[j])
        IN  ~(/\ i < j
              /\ a # <<>> /\ a[1] \in TopLevelKeywords \ {"package", "import"}
              /\ b # <<>> /\ b[1] = "import")

Parses(src) == ParsesFrom(src, <<>>, FALSE) /\ ImportsFirst(src)

\* the order of the import paths the model uses
PathRank(spec) ==
    LET w == IF Len(spec) >= 2 THEN spec[2] ELSE ""
    IN  IF w = "fmt" THEN 1 ELSE IF w = "github" THEN 2 ELSE IF w = "math" THEN 3
        ELSE IF w = "os" THEN 4 ELSE 5

\* ast.SortImports: the specs in path order, each once
RECURSIVE SortSpecs(_)
SortSpecs(specs) ==
    IF specs = <<>> THEN <<>>
    ELSE LET m == CHOOSE i \in 1..Len(specs) :
                      \A j \in 1..Len(specs) :
                          \/ PathRank(specs[i]) < PathRank(specs[j])
                          \/ (PathRank(specs[i]) = PathRank(specs[j]) /\ i <= j)
             rest == SelectSeq(specs, LAMBDA x : x # specs[m])
         IN  <<specs[m]>> \o SortSpecs(rest)

\* the printer, line by line.  f holds: depth, the nesting before the line; out,
\* the lines printed; blank, whether blank lines were skipped since the last
\* line printed; kind, the keyword of the last top-level declaration; specs, the
\* import specs of the open import group; inImports, whether one is open
RECURSIVE PrintFrom(_, _)
PrintFrom(src, f) ==
    IF src = <<>> THEN f.out
    ELSE LET t == TrimSpace(Head(src))
             rest == Tail(src)
         IN  IF t = <<>> THEN PrintFrom(rest, [f EXCEPT !.blank = (f.out # <<>>)])
             ELSE IF f.inImports /\ t = <<")">>
             THEN PrintFrom(rest,
                      [f EXCEPT !.inImports = FALSE, !.depth = 0, !.blank = FALSE,
                                !.specs = <<>>,
                                !.out = @ \o
                                    (IF f.specs = <<>>
                                     THEN << <<"import", " ", "(", ")">> >>
                                     ELSE << <<"import", " ", "(">> >>
                                          \o [i \in 1..Len(SortSpecs(f.specs)) |->
                                                 <<"\t">> \o SortSpecs(f.specs)[i]]
                                          \o << <<")">> >>)])
             ELSE IF f.inImports
             THEN PrintFrom(rest, [f EXCEPT !.specs = Append(@, t)])
             ELSE IF f.depth = 0 /\ ImportGroupMatch(t)
             THEN PrintFrom(rest,
                      [f EXCEPT !.inImports = TRUE, !.depth = 1, !.kind = "import",
                                !.blank = FALSE,
                                !.out = IF f.out # <<>> /\ (f.blank \/ f.kind # "import")
                                        THEN Append(@, <<>>) ELSE @])
             ELSE LET closes == t[1] \in {")", "}"}
                      opened == f.out # <<>> /\ HasSuffix(f.out[Len(f.out)], "(")
                      newKind == f.depth = 0 /\ t[1] \in TopLevelKeywords
                                 /\ f.kind # "" /\ f.kind # t[1]
                      gap == f.out # <<>> /\ ~opened /\ t[1] # ")" /\ (f.blank \/ newKind)
                      ind == IF closes /\ f.depth > 0 THEN f.depth - 1 ELSE f.depth
                  IN  PrintFrom(rest,
                          [f EXCEPT !.depth = @ + NetDepth(t),
                                    !.blank = FALSE,
                                    !.kind = IF f.depth = 0 /\ t[1] \in TopLevelKeywords
                                             THEN t[1] ELSE @,
                                    !.out = (IF gap THEN Append(@, <<>>) ELSE @)
                                            \o << Tabs(ind) \o t >>])

\* format.Source(src): the formatted lines, or an error
FormatSource(src) ==
    IF Parses(src)
    THEN [err |-> FALSE,
          out |-> PrintFrom(src, [depth |-> 0, out |-> <<>>, blank |-> FALSE, kind |-> "",
                                  specs |-> <<>>, inImports |-> FALSE])]
    ELSE [err |-> TRUE, out |-> <<>>]

(***************************************************************************)
(* handleTidy                                                              *)
(***************************************************************************)
\* fmt.Sprintf(codeTemplateForTidy, ...): a "%s\n" is the block and an empty line
CodeTemplateForTidy(imports, decls, stmts) ==
    << <<>>, <<"package", " ", "main">>, <<>>, <<"import", " ", "(">> >>
    \o imports \o << <<>>, <<")">>, <<>> >>
    \o decls \o << <<>>, <<>>, <<"func", " ", "main", "(", ")", " ", "{">> >>
    \o stmts \o << <<>>, <<"}">> >>

\* strings.TrimSpace of a text of several lines: without the blank lines at both
\* ends, the blanks that open the first line and those that close the last
TrimText(ls) ==
    LET solid == {i \in 1..Len(ls) : TrimSpace(ls[i]) # <<>>}
    IN  IF solid = {} THEN <<>>
        ELSE LET a == CHOOSE i \in solid : \A j \in solid : i <= j
                 b == CHOOSE i \in solid : \A j \in solid : j <= i
             IN  [i \in 1..(b - a + 1) |->
                     IF a = b THEN TrimSpace(ls[a])
                     ELSE IF i = 1 THEN TrimLeft(ls[a])
                     ELSE IF i = b - a + 1 THEN TrimRight(ls[b])
                     ELSE ls[a + i - 1]]

\* the first position at which pat occurs in line, or 0
FindSub(line, pat) ==
    LET at == {p \in 1..(Len(line) - Len(pat) + 1) : SubSeq(line, p, p + Len(pat) - 1) = pat}
    IN  IF at = {} THEN 0 ELSE CHOOSE p \in at : \A q \in at : p <= q

MainOpen == <<"func", " ", "main", "(", ")", " ", "{">>

\* mainFuncRegex, (?s)func main\(\) \{\n?(.*)\n\s*\} , on a block of lines: the
\* leftmost `func main() {`, and, the star being greedy, the last later line
\* whose first non-blank character is `}`.  found: whether it matches; body: the
\* capture group; without: the block with the match cut out
MainFuncRegex(decl) ==
    LET opens == {i \in 1..Len(decl) : FindSub(decl[i], MainOpen) > 0}
        o == CHOOSE i \in opens : \A j \in opens : i <= j
        closers == {k \in (o + 1)..Len(decl) : TrimLeft(decl[k]) # <<>>
                                               /\ Head(TrimLeft(decl[k])) = "}"}
        c == CHOOSE k \in closers : \A j \in closers : j <= k
        p == FindSub(decl[o], MainOpen)
        after == SubSeq(decl[o], p + Len(MainOpen), Len(decl[o]))
    IN  IF opens = {} \/ closers = {}
        THEN [found |-> FALSE, body |-> <<>>, without |-> decl]
        ELSE [found |-> TRUE,
              body |-> (IF after = <<>> THEN <<>> ELSE <<after>>) \o SubSeq(decl, o + 1, c - 1),
              without |-> SubSeq(decl, 1, o - 1)
                          \o << SubSeq(decl[o], 1, p - 1) \o Tail(TrimLeft(decl[c])) >>
                          \o SubSeq(decl, c + 1, Len(decl))]

\* step 5: the import clause from the recovered import lines
ImportClause(formattedImports) ==
    LET importLines == TrimText(formattedImports)
    IN  IF importLines = <<>> THEN <<>>
        ELSE IF Len(importLines) = 1
        THEN << <<"import", " ">> \o TrimSpace(importLines[1]) >>
        ELSE << <<"import", " ", "(">> >> \o importLines \o << <<")">> >>

\* strings.Join(finalParts, "\n\n"), split into lines
RECURSIVE JoinParts(_)
JoinParts(parts) ==
    IF parts = <<>> THEN <<>>
    ELSE IF Head(parts) = <<>> THEN JoinParts(Tail(parts))
    ELSE LET rest == JoinParts(Tail(parts))
         IN  IF rest = <<>> THEN Head(parts) ELSE Head(parts) \o << <<>> >> \o rest

\* a faulty handleTidy: the error of format.Source is dropped
HandleTidyUnchecked(buf) ==
    LET parts     == SeparateCodeParts(buf)
        formatted == FormatSource(CodeTemplateForTidy(parts.userImports,
                                      parts.topLevelDeclarations, parts.statements))
        again     == ClassifyAll(InitialParts, formatted.out \o << <<>> >>)
        main      == MainFuncRegex(again.topLevelDeclarations)
    IN  [err |-> FALSE,
         lines |-> JoinParts(<< ImportClause(again.userImports),
                                TrimText(main.without),
                                TrimText(main.body) >>)]

\* handleTidy(strings.Join(buf, "\n")): err, or the lines of the new buffer
HandleTidy(buf) ==
    LET parts     == SeparateCodeParts(buf)
        formatted == FormatSource(CodeTemplateForTidy(parts.userImports,
                                      parts.topLevelDeclarations, parts.statements))
        again     == ClassifyAll(InitialParts, formatted.out \o << <<>> >>)
        main      == MainFuncRegex(again.topLevelDeclarations)
    IN  IF formatted.err THEN [err |-> TRUE, lines |-> <<>>]
        ELSE [err |-> FALSE,
              lines |-> JoinParts(<< ImportClause(again.userImports),
                                     TrimText(main.without),
                                     TrimText(main.body) >>)]

(***************************************************************************)
(* main: the command loop.  One action is one iteration of the loop, from  *)
(* rl.Readline() to the continue that ends it; inp is the line read.       *)
(***************************************************************************)
\* the longest buffer the loop is followed to
MaxBuf == 3

\* strings.Fields
RECURSIVE Fields(_)
Fields(s) ==
    LET t == TrimLeft(s)
        stops == {i \in 1..Len(t) : t[i] \in WhiteSpace}
        n == IF stops = {} THEN Len(t) ELSE (CHOOSE i \in stops : \A j \in stops : i <= j) - 1
    IN  IF t = <<>> THEN <<>>
        ELSE <<SubSeq(t, 1, n)>> \o Fields(SubSeq(t, n + 1, Len(t)))

Digits == <<"0", "1", "2", "3", "4", "5", "6", "7", "8", "9">>

\* a faulty strconv.Atoi: a word that is no numeral counts as 1
AtoiLenient(f) ==
    LET digit(c) == \E i \in 1..Len(Digits) : Digits[i] = c
        value(c) == (CHOOSE i \in 1..Len(Digits) : Digits[i] = c) - 1
    IN  IF Len(f) = 1 /\ digit(f[1]) THEN [err |-> FALSE, val |-> value(f[1])]
        ELSE IF Len(f) = 2 /\ f[1] = "-" /\ digit(f[2]) THEN [err |-> FALSE, val |-> 0 - value(f[2])]
        ELSE [err |-> FALSE, val |-> 1]

\* strconv.Atoi on the numerals the inputs use: one digit, with or without sign
Atoi(f) ==
    LET digit(c) == \E i \in 1..Len(Digits) : Digits[i] = c
        value(c) == (CHOOSE i \in 1..Len(Digits) : Digits[i] = c) - 1
    IN  IF Len(f) = 1 /\ digit(f[1]) THEN [err |-> FALSE, val |-> value(f[1])]
        ELSE IF Len(f) = 2 /\ f[1] = "-" /\ digit(f[2]) THEN [err |-> FALSE, val |-> 0 - value(f[2])]
        ELSE [err |-> TRUE, val |-> 0]

\* the line  :what , which is no command and no Go statement
WhatLine == <<":", "what">>

\* the code lines typed
CodeInputs == {Empty, <<" ">>, PrintOne}

\* the line numbers typed: 0 .. MaxBuf + 1, -1, and a word that is no number
NumberArgs == {<<Digits[i]>> : i \in 1..(MaxBuf + 2)} \cup {<<"-", "1">>, <<"x">>}

\* the commands typed; :what is no command of the loop
CommandInputs ==
    {<<":", w>> : w \in {"q", "clear", "show", "save", "load", "edit", "insert", "delete",
                         "undo", "u", "tidy", "what"}}
    \cup {<<":", w, " ">> \o n : w \in {"insert", "delete"}, n \in NumberArgs}
    \cup {<<":", "i", " ", "1">>, <<":", "d", " ", "1">>, <<":", "load", " ", "a">>}

\* the lines typed at the prompt
ReplInputs == CodeInputs \cup CommandInputs

\* the lines typed in a session that saves, loads and renames snippets
FileInputs ==
    {PrintOne, <<":", "save">>, <<":", "save", " ", "b">>, <<":", "load", " ", "a">>,
     <<":", "saveas", " ", "b">>, <<":", "saveas">>, <<":", "rename", " ", "b">>,
     <<":", "rename", " ", "a">>, <<":", "rename">>}

\* a line typed with its indentation, and a word after white space that starts
\* with a colon and is no command
IndentedPrint == <<"\t">> \o PrintOne \o <<" ">>
IndentedWhat  == <<" ", ":", "what", " ", "1">>

\* the lines typed in a session that only types: blank ones, code with and
\* without indentation, words with a colon that are no command
TypedInputs ==
    {Empty, <<" ">>, <<"\t", " ">>, PrintOne, IndentedPrint, CloseBrace, <<":", "what">>,
     IndentedWhat}

\* the lines typed in a session that saves the buffer as b and loads it again
SaveB == <<":", "save", " ", "b">>
LoadB == <<":", "load", " ", "b">>
RoundInputs == {PrintOne, IndentedPrint, <<":", "undo">>, SaveB, LoadB}

\* fields := strings.Fields(strings.TrimSpace(input)), computed once per input
\* (the comparison makes TLC tabulate the function instead of applying its body)
FieldsOf ==
    LET table == [inp \in ReplInputs \cup FileInputs \cup TypedInputs \cup RoundInputs
                      |-> Fields(TrimSpace(inp))]
    IN  IF table = table THEN table ELSE table

\* isCommand := len(fields) > 0 && strings.HasPrefix(fields[0], ":")
IsCommand(inp) == FieldsOf[inp] # <<>> /\ Head(FieldsOf[inp])[1] = ":"

\* the input reaches the switch on cmd, and cmd is one of words
Dispatch(inp, words) ==
    /\ pc = "loop"
    /\ FieldsOf[inp] # <<>>
    /\ Head(FieldsOf[inp]) \in words
    /\ ~(nextInputReplacesLine > 0 /\ ~IsCommand(inp))

\* args := fields[1:]
Args(inp) == Tail(FieldsOf[inp])

\* the snippet a list of arguments names: strings.Join(args, " ") with the .go
\* extension that ensureGoExtension adds and strings.TrimSuffix removes again
SnippetOf(args) == args[1][1]

\* handleSave(code, args): the name it makes current and the directory after
\* the write, which fails when the text does not fit
HandleSave(buf, args, name, dir) ==
    LET filename == IF args = <<>>
                    THEN IF name # "" THEN name
                         ELSE IF lastLoadedFilePath # "" THEN lastLoadedFilePath
                         ELSE "ts"
                    ELSE SnippetOf(args)
        text == SplitJoin(buf)
        size == IF text = << <<>> >> THEN 0 ELSE Len(text)
    IN  {[name |-> filename, files |-> [dir EXCEPT ![filename] = text], ok |-> TRUE] :
             x \in IF size < diskRoom THEN {1} ELSE {}}
        \cup {[name |-> filename, files |-> dir, ok |-> FALSE]}

\* what the user answers to "Save now? (y/n)", lower-cased and trimmed; "<EOF>"
\* is a failed read
Answers == {"y", "n", "maybe", "<EOF>"}

\* a faulty promptToSave: every answer that is not yes counts as no
PromptToSaveLax(buf) ==
    IF ~bufferDirty
    THEN {[proceed |-> TRUE, name |-> currentSnippetName, files |-> files, answer |-> "-"]}
    ELSE UNION {
           IF a = "y"
           THEN {[proceed |-> TRUE, name |-> o.name, files |-> o.files, answer |-> a] :
                     o \in HandleSave(buf, <<>>, currentSnippetName, files)}
           ELSE {[proceed |-> (a # "<EOF>"), name |-> currentSnippetName, files |-> files,
                  answer |-> a]}
           : a \in Answers}

\* promptToSave(rl, code): whether the caller proceeds, what the save did, and
\* the answer read
PromptToSave(buf) ==
    IF ~bufferDirty
    THEN {[proceed |-> TRUE, name |-> currentSnippetName, files |-> files, answer |-> "-"]}
    ELSE UNION {
           IF a = "y"
           THEN {[proceed |-> TRUE, name |-> o.name, files |-> o.files, answer |-> a] :
                     o \in HandleSave(buf, <<>>, currentSnippetName, files)}
           ELSE {[proceed |-> (a = "n"), name |-> currentSnippetName, files |-> files,
                  answer |-> a]}
           : a \in Answers}

\* input, err := rl.Readline(); if err != nil { ... }
ReadError ==
    /\ pc = "loop"
    /\ \E o \in PromptToSave(codeLines) :
           /\ currentSnippetName' = o.name
           /\ files' = o.files
           /\ pc' = IF o.proceed THEN "exit" ELSE "loop"
           /\ notice' = Asked(IF o.proceed THEN "exiting" ELSE "cancelled", o.answer)
    /\ UNCHANGED <<codeLines, nextInputReplacesLine, bufferDirty, lastLoadedFilePath>>
    /\ UNCHANGED <<sysVars, diskRoom, lines, idx, inImportBlock, inGlobalDeclBlock, inFuncDecl,
                   braceCount, userImports, topLevelDeclarations, statements, fullCode,
                   toolchain>>

\* a faulty handling of the empty input in replace mode: the blank line that
\* :insert made is taken out again
ReplaceEmptyDrops(inp) ==
    /\ pc = "loop"
    /\ nextInputReplacesLine > 0
    /\ FieldsOf[inp] = <<>>
    /\ nextInputReplacesLine' = 0
    /\ codeLines' = SubSeq(codeLines, 1, nextInputReplacesLine - 1)
                       \o SubSeq(codeLines, nextInputReplacesLine + 1, Len(codeLines))
    /\ notice' = Note("remains empty", nextInputReplacesLine)
    /\ UNCHANGED <<bufferDirty, currentSnippetName, lastLoadedFilePath, files, pc>>
    /\ UNCHANGED <<sysVars, diskRoom, lines, idx, inImportBlock, inGlobalDeclBlock, inFuncDecl,
                   braceCount, userImports, topLevelDeclarations, statements, fullCode,
                   toolchain>>

\* if nextInputReplacesLine > 0 && strings.TrimSpace(input) == ""
ReplaceEmpty(inp) ==
    /\ pc = "loop"
    /\ nextInputReplacesLine > 0
    /\ FieldsOf[inp] = <<>>
    /\ nextInputReplacesLine' = 0
    /\ notice' = Note("remains empty", nextInputReplacesLine)
    /\ UNCHANGED <<codeLines, bufferDirty, currentSnippetName, lastLoadedFilePath, files, pc>>
    /\ UNCHANGED <<sysVars, diskRoom, lines, idx, inImportBlock, inGlobalDeclBlock, inFuncDecl,
                   braceCount, userImports, topLevelDeclarations, statements, fullCode,
                   toolchain>>

\* if nextInputReplacesLine > 0 && !isCommand: codeLines[nextInputReplacesLine-1]
\* is read and written; an index outside the slice is a run-time panic
ReplaceLine(inp) ==
    /\ pc = "loop"
    /\ nextInputReplacesLine > 0
    /\ FieldsOf[inp] # <<>>
    /\ ~IsCommand(inp)
    /\ IF nextInputReplacesLine > Len(codeLines)
       THEN /\ pc' = "panic"
            /\ notice' = Note("index out of range", nextInputReplacesLine)
            /\ UNCHANGED <<codeLines, bufferDirty, nextInputReplacesLine>>
       ELSE /\ bufferDirty' = (bufferDirty \/ codeLines[nextInputReplacesLine] # inp)
            /\ codeLines' = [codeLines EXCEPT ![nextInputReplacesLine] = inp]
            /\ nextInputReplacesLine' = 0
            /\ notice' = Note("updated", nextInputReplacesLine)
            /\ pc' = pc
    /\ UNCHANGED <<currentSnippetName, lastLoadedFilePath, files>>
    /\ UNCHANGED <<sysVars, diskRoom, lines, idx, inImportBlock, inGlobalDeclBlock, inFuncDecl,
                   braceCount, userImports, topLevelDeclarations, statements, fullCode,
                   toolchain>>

\* if len(fields) == 0 { continue }
EmptyInput(inp) ==
    /\ pc = "loop"
    /\ nextInputReplacesLine = 0
    /\ FieldsOf[inp] = <<>>
    /\ UNCHANGED <<codeLines, nextInputReplacesLine, bufferDirty, currentSnippetName,
                   lastLoadedFilePath, files, pc, notice>>
    /\ UNCHANGED <<sysVars, diskRoom, lines, idx, inImportBlock, inGlobalDeclBlock, inFuncDecl,
                   braceCount, userImports, topLevelDeclarations, statements, fullCode,
                   toolchain>>

\* case ":quit", ":exit", ":bye", ":q"
CmdQuit(inp) ==
    /\ Dispatch(inp, {<<":", "quit">>, <<":", "exit">>, <<":", "bye">>, <<":", "q">>})
    /\ \E o \in PromptToSave(codeLines) :
           /\ currentSnippetName' = o.name
           /\ files' = o.files
           /\ pc' = IF o.proceed THEN "exit" ELSE "loop"
           /\ notice' = Asked(IF o.proceed THEN "exiting" ELSE "cancelled", o.answer)
    /\ UNCHANGED <<codeLines, nextInputReplacesLine, bufferDirty, lastLoadedFilePath>>
    /\ UNCHANGED <<sysVars, diskRoom, lines, idx, inImportBlock, inGlobalDeclBlock, inFuncDecl,
                   braceCount, userImports, topLevelDeclarations, statements, fullCode,
                   toolchain>>

\* a faulty :clear: the path of the last loaded file stays
CmdClearKeepsPath(inp) ==
    /\ Dispatch(inp, {<<":", "clear">>})
    /\ \E o \in PromptToSave(codeLines) :
           /\ files' = o.files
           /\ IF o.proceed
              THEN /\ codeLines' = <<>>
                   /\ currentSnippetName' = ""
                   /\ nextInputReplacesLine' = 0
                   /\ bufferDirty' = FALSE
                   /\ notice' = Asked("cleared", o.answer)
                   /\ UNCHANGED lastLoadedFilePath
              ELSE /\ currentSnippetName' = o.name
                   /\ notice' = Asked("cancelled", o.answer)
                   /\ UNCHANGED <<codeLines, lastLoadedFilePath, nextInputReplacesLine,
                                  bufferDirty>>
    /\ UNCHANGED pc
    /\ UNCHANGED <<sysVars, diskRoom, lines, idx, inImportBlock, inGlobalDeclBlock, inFuncDecl,
                   braceCount, userImports, topLevelDeclarations, statements, fullCode,
                   toolchain>>

\* case ":clear"
CmdClear(inp) ==
    /\ Dispatch(inp, {<<":", "clear">>})
    /\ \E o \in PromptToSave(codeLines) :
           /\ files' = o.files
           /\ IF o.proceed
              THEN /\ codeLines' = <<>>
                   /\ currentSnippetName' = ""
                   /\ lastLoadedFilePath' = ""
                   /\ nextInputReplacesLine' = 0
                   /\ bufferDirty' = FALSE
                   /\ notice' = Asked("cleared", o.answer)
              ELSE /\ currentSnippetName' = o.name
                   /\ notice' = Asked("cancelled", o.answer)
                   /\ UNCHANGED <<codeLines, lastLoadedFilePath, nextInputReplacesLine,
                                  bufferDirty>>
    /\ UNCHANGED pc
    /\ UNCHANGED <<sysVars, diskRoom, lines, idx, inImportBlock, inGlobalDeclBlock, inFuncDecl,
                   braceCount, userImports, topLevelDeclarations, statements, fullCode,
                   toolchain>>

\* case ":show" (and ":list", ":help": they print and change nothing)
CmdShow(inp) ==
    /\ Dispatch(inp, {<<":", "show">>, <<":", "list">>, <<":", "help">>})
    /\ notice' = Note("shown", 0)
    /\ UNCHANGED <<codeLines, nextInputReplacesLine, bufferDirty, currentSnippetName,
                   lastLoadedFilePath, files, pc>>
    /\ UNCHANGED <<sysVars, diskRoom, lines, idx, inImportBlock, inGlobalDeclBlock, inFuncDecl,
                   braceCount, userImports, topLevelDeclarations, statements, fullCode,
                   toolchain>>

\* case ":save"
CmdSave(inp) ==
    /\ Dispatch(inp, {<<":", "save">>})
    /\ \E o \in HandleSave(codeLines, Args(inp), currentSnippetName, files) :
           /\ currentSnippetName' = o.name
           /\ files' = o.files
           /\ notice' = Note(IF o.ok THEN "saved" ELSE "error saving", 0)
    /\ bufferDirty' = FALSE
    /\ UNCHANGED <<codeLines, nextInputReplacesLine, lastLoadedFilePath, pc>>
    /\ UNCHANGED <<sysVars, diskRoom, lines, idx, inImportBlock, inGlobalDeclBlock, inFuncDecl,
                   braceCount, userImports, topLevelDeclarations, statements, fullCode,
                   toolchain>>

\* case ":load": promptToSave, then handleLoad(&codeLines, args)
CmdLoad(inp) ==
    /\ Dispatch(inp, {<<":", "load">>})
    /\ \E o \in PromptToSave(codeLines) :
           /\ files' = o.files
           /\ IF ~o.proceed
              THEN /\ currentSnippetName' = o.name
                   /\ notice' = Asked("cancelled", o.answer)
                   /\ UNCHANGED <<codeLines, lastLoadedFilePath, nextInputReplacesLine,
                                  bufferDirty>>
              ELSE /\ nextInputReplacesLine' = 0
                   /\ bufferDirty' = FALSE
                   /\ IF Len(Args(inp)) # 1
                      THEN /\ notice' = Asked("usage", o.answer)
                           /\ currentSnippetName' = o.name
                           /\ UNCHANGED <<codeLines, lastLoadedFilePath>>
                      ELSE IF o.files[SnippetOf(Args(inp))] = NoFile
                      THEN /\ notice' = Asked("error loading", o.answer)
                           /\ currentSnippetName' = o.name
                           /\ UNCHANGED <<codeLines, lastLoadedFilePath>>
                      ELSE /\ codeLines' = o.files[SnippetOf(Args(inp))]
                           /\ lastLoadedFilePath' = SnippetOf(Args(inp))
                           /\ currentSnippetName' = SnippetOf(Args(inp))
                           /\ notice' = Asked("loaded", o.answer)
    /\ UNCHANGED pc
    /\ UNCHANGED <<sysVars, diskRoom, lines, idx, inImportBlock, inGlobalDeclBlock, inFuncDecl,
                   braceCount, userImports, topLevelDeclarations, statements, fullCode,
                   toolchain>>

\* case ":saveas": handleSaveAs(strings.Join(codeLines, "\n"), args)
CmdSaveAs(inp) ==
    /\ Dispatch(inp, {<<":", "saveas">>})
    /\ IF Len(codeLines) = 0
       THEN /\ notice' = Note("no code to save", 0)
            /\ UNCHANGED <<bufferDirty, currentSnippetName, lastLoadedFilePath, files>>
       ELSE /\ bufferDirty' = FALSE
            /\ IF Len(Args(inp)) # 1
               THEN /\ notice' = Note("usage", 0)
                    /\ UNCHANGED <<currentSnippetName, lastLoadedFilePath, files>>
               ELSE IF files[SnippetOf(Args(inp))] # NoFile
               THEN /\ notice' = Note("already exists", 0)
                    /\ UNCHANGED <<currentSnippetName, lastLoadedFilePath, files>>
               ELSE \E o \in HandleSave(codeLines, Args(inp), currentSnippetName, files) :
                        /\ files' = o.files
                        /\ IF o.ok
                           THEN /\ lastLoadedFilePath' = o.name
                                /\ currentSnippetName' = o.name
                                /\ notice' = Note("saved as", 0)
                           ELSE /\ notice' = Note("error saving", 0)
                                /\ UNCHANGED <<currentSnippetName, lastLoadedFilePath>>
    /\ UNCHANGED <<codeLines, nextInputReplacesLine, pc>>
    /\ UNCHANGED <<sysVars, diskRoom, lines, idx, inImportBlock, inGlobalDeclBlock, inFuncDecl,
                   braceCount, userImports, topLevelDeclarations, statements, fullCode,
                   toolchain>>

\* case ":rename": handleRename(args)
CmdRename(inp) ==
    /\ Dispatch(inp, {<<":", "rename">>})
    /\ IF Len(Args(inp)) # 1
       THEN /\ notice' = Note("usage", 0)
            /\ UNCHANGED <<currentSnippetName, lastLoadedFilePath, files>>
       ELSE IF lastLoadedFilePath = ""
       THEN /\ notice' = Note("nothing to rename", 0)
            /\ UNCHANGED <<currentSnippetName, lastLoadedFilePath, files>>
       ELSE IF files[SnippetOf(Args(inp))] # NoFile
       THEN /\ notice' = Note("already exists", 0)
            /\ UNCHANGED <<currentSnippetName, lastLoadedFilePath, files>>
       ELSE IF files[lastLoadedFilePath] = NoFile
       THEN /\ notice' = Note("error renaming", 0)
            /\ UNCHANGED <<currentSnippetName, lastLoadedFilePath, files>>
       ELSE /\ files' = [files EXCEPT ![lastLoadedFilePath] = NoFile,
                                      ![SnippetOf(Args(inp))] = files[lastLoadedFilePath]]
            /\ lastLoadedFilePath' = SnippetOf(Args(inp))
            /\ currentSnippetName' = SnippetOf(Args(inp))
            /\ notice' = Note("renamed", 0)
    /\ UNCHANGED <<codeLines, nextInputReplacesLine, bufferDirty, pc>>
    /\ UNCHANGED <<sysVars, diskRoom, lines, idx, inImportBlock, inGlobalDeclBlock, inFuncDecl,
                   braceCount, userImports, topLevelDeclarations, statements, fullCode,
                   toolchain>>

\* the longest text an editor session is taken to leave
MaxEdit == 2

\* the lines an editor session can leave in the temporary file
EditorLines == {Empty, PrintOne}

\* strings.Split(string(editedCode), "\n") has one line at least
EditorTexts == SeqsUpTo(EditorLines, MaxEdit) \ {<<>>}

\* case ":edit": handleEdit(&codeLines) replaces the buffer by the lines of the
\* edited file, or returns early on an error; bufferDirty = true in both cases
CmdEdit(inp) ==
    /\ Dispatch(inp, {<<":", "edit">>})
    /\ \/ /\ codeLines' \in EditorTexts
          /\ notice' = Note("buffer updated from editor", 0)
       \/ /\ codeLines' = codeLines
          /\ notice' = Note("error opening editor", 0)
    /\ bufferDirty' = TRUE
    /\ UNCHANGED <<nextInputReplacesLine, currentSnippetName, lastLoadedFilePath, files, pc>>
    /\ UNCHANGED <<sysVars, diskRoom, lines, idx, inImportBlock, inGlobalDeclBlock, inFuncDecl,
                   braceCount, userImports, topLevelDeclarations, statements, fullCode,
                   toolchain>>

\* err != nil || lineNum < 1 || lineNum > max
InvalidLineNumber(lineNum, max) == lineNum.err \/ lineNum.val < 1 \/ lineNum.val > max

\* a faulty insertion: the empty line goes to the end of the buffer
InsertBlankAtEnd(buf, i) == Append(buf, <<>>)

\* append(codeLines[:i], append([]string{""}, codeLines[i:]...)...)
InsertBlankAt(buf, i) == SubSeq(buf, 1, i) \o << <<>> >> \o SubSeq(buf, i + 1, Len(buf))

\* case ":insert", ":i"
CmdInsert(inp) ==
    /\ Dispatch(inp, {<<":", "insert">>, <<":", "i">>})
    /\ LET args == Args(inp)
           lineNum == Atoi(args[1])
       IN  IF Len(args) # 1
           THEN /\ notice' = Note("usage", 0)
                /\ UNCHANGED <<codeLines, bufferDirty, nextInputReplacesLine>>
           ELSE IF InvalidLineNumber(lineNum, Len(codeLines) + 1)
           THEN /\ notice' = Note("invalid line number", 0)
                /\ UNCHANGED <<codeLines, bufferDirty, nextInputReplacesLine>>
           ELSE /\ Len(codeLines) < MaxBuf
                /\ codeLines' = InsertBlankAt(codeLines, lineNum.val - 1)
                /\ bufferDirty' = TRUE
                /\ nextInputReplacesLine' = lineNum.val
                /\ notice' = Note("inserted", lineNum.val)
    /\ UNCHANGED <<currentSnippetName, lastLoadedFilePath, files, pc>>
    /\ UNCHANGED <<sysVars, diskRoom, lines, idx, inImportBlock, inGlobalDeclBlock, inFuncDecl,
                   braceCount, userImports, topLevelDeclarations, statements, fullCode,
                   toolchain>>

\* a faulty deletion: the last line goes, whatever i
DeleteLast(buf, i) == SubSeq(buf, 1, Len(buf) - 1)

\* append(codeLines[:i], codeLines[i+1:]...)
DeleteAt(buf, i) == SubSeq(buf, 1, i) \o SubSeq(buf, i + 2, Len(buf))

\* a faulty :delete: replace mode is cancelled only when the armed line is the
\* one deleted
CmdDeleteWhenAffected(inp) ==
    /\ Dispatch(inp, {<<":", "delete">>, <<":", "d">>})
    /\ LET args == Args(inp)
           lineNum == Atoi(args[1])
       IN  IF Len(args) # 1
           THEN /\ notice' = Note("usage", 0)
                /\ UNCHANGED <<codeLines, bufferDirty, nextInputReplacesLine>>
           ELSE IF InvalidLineNumber(lineNum, Len(codeLines))
           THEN /\ notice' = Note("invalid line number", 0)
                /\ UNCHANGED <<codeLines, bufferDirty, nextInputReplacesLine>>
           ELSE /\ nextInputReplacesLine' = IF nextInputReplacesLine = lineNum.val
                                            THEN 0 ELSE nextInputReplacesLine
                /\ codeLines' = DeleteAt(codeLines, lineNum.val - 1)
                /\ bufferDirty' = TRUE
                /\ notice' = Note("deleted", lineNum.val)
    /\ UNCHANGED <<currentSnippetName, lastLoadedFilePath, files, pc>>
    /\ UNCHANGED <<sysVars, diskRoom, lines, idx, inImportBlock, inGlobalDeclBlock, inFuncDecl,
                   braceCount, userImports, topLevelDeclarations, statements, fullCode,
                   toolchain>>

\* case ":delete", ":d"
CmdDelete(inp) ==
    /\ Dispatch(inp, {<<":", "delete">>, <<":", "d">>})
    /\ LET args == Args(inp)
           lineNum == Atoi(args[1])
       IN  IF Len(args) # 1
           THEN /\ notice' = Note("usage", 0)
                /\ UNCHANGED <<codeLines, bufferDirty, nextInputReplacesLine>>
           ELSE IF InvalidLineNumber(lineNum, Len(codeLines))
           THEN /\ notice' = Note("invalid line number", 0)
                /\ UNCHANGED <<codeLines, bufferDirty, nextInputReplacesLine>>
           ELSE /\ nextInputReplacesLine' = 0
                /\ codeLines' = DeleteAt(codeLines, lineNum.val - 1)
                /\ bufferDirty' = TRUE
                /\ notice' = Note("deleted", lineNum.val)
    /\ UNCHANGED <<currentSnippetName, lastLoadedFilePath, files, pc>>
    /\ UNCHANGED <<sysVars, diskRoom, lines, idx, inImportBlock, inGlobalDeclBlock, inFuncDecl,
                   braceCount, userImports, topLevelDeclarations, statements, fullCode,
                   toolchain>>

\* a faulty undo: the first line goes
DropFirst(buf) == Tail(buf)

\* codeLines[:len(codeLines)-1]
DropLast(buf) == SubSeq(buf, 1, Len(buf) - 1)

\* case ":undo", ":u"
CmdUndo(inp) ==
    /\ Dispatch(inp, {<<":", "undo">>, <<":", "u">>})
    /\ IF Len(codeLines) > 0
       THEN /\ codeLines' = DropLast(codeLines)
            /\ bufferDirty' = TRUE
            /\ notice' = Note("last entry removed", 0)
       ELSE /\ notice' = Note("nothing to undo", 0)
            /\ UNCHANGED <<codeLines, bufferDirty>>
    /\ UNCHANGED <<nextInputReplacesLine, currentSnippetName, lastLoadedFilePath, files, pc>>
    /\ UNCHANGED <<sysVars, diskRoom, lines, idx, inImportBlock, inGlobalDeclBlock, inFuncDecl,
                   braceCount, userImports, topLevelDeclarations, statements, fullCode,
                   toolchain>>

\* the lines the buffer of a session holds: those typed, those the editor
\* leaves, and the statement handleTidy leaves indented
BufferLines == {Empty, PrintOne, <<"\t">> \o PrintOne, WhatLine}

\* handleTidy on the buffers of a session, computed once for each
\* (the comparison makes TLC tabulate the function instead of applying its body)
TidyOf ==
    LET table == [buf \in SeqsUpTo(BufferLines, MaxBuf) |-> HandleTidy(buf)]
    IN  IF table = table THEN table ELSE table

\* case ":tidy", tidied being what handleTidy returns on the buffer
TidyStep(tidied) ==
    IF Len(codeLines) = 0
    THEN /\ notice' = Note("no code to tidy", 0)
         /\ UNCHANGED <<codeLines, bufferDirty>>
    ELSE IF tidied.err
    THEN /\ notice' = Note("error tidying code", 0)
         /\ UNCHANGED <<codeLines, bufferDirty>>
    ELSE /\ codeLines' = tidied.lines
         /\ bufferDirty' = TRUE
         /\ notice' = Note("tidied", 0)

\* case ":tidy" in a session, followed while the buffer stays within MaxBuf
CmdTidy(inp) ==
    /\ Dispatch(inp, {<<":", "tidy">>})
    /\ (Len(codeLines) > 0 /\ ~TidyOf[codeLines].err)
           => Len(TidyOf[codeLines].lines) <= MaxBuf
    /\ TidyStep(TidyOf[codeLines])
    /\ UNCHANGED <<nextInputReplacesLine, currentSnippetName, lastLoadedFilePath, files, pc>>
    /\ UNCHANGED <<sysVars, diskRoom, lines, idx, inImportBlock, inGlobalDeclBlock, inFuncDecl,
                   braceCount, userImports, topLevelDeclarations, statements, fullCode,
                   toolchain>>

\* the words of the switch
CommandWords ==
    {<<":", w>> : w \in {"quit", "exit", "bye", "q", "clear", "show", "list", "save", "load",
                         "export", "edit", "insert", "i", "rename", "saveas", "delete", "d",
                         "help", "undo", "u", "tidy", "run", "sys"}}

\* a faulty default case: the line is appended without the white space around it
AppendInputTrimmed(inp) ==
    /\ pc = "loop"
    /\ FieldsOf[inp] # <<>>
    /\ Head(FieldsOf[inp]) \notin CommandWords
    /\ ~(nextInputReplacesLine > 0 /\ ~IsCommand(inp))
    /\ Len(codeLines) < MaxBuf
    /\ codeLines' = Append(codeLines, TrimSpace(inp))
    /\ bufferDirty' = TRUE
    /\ notice' = Note("appended", 0)
    /\ UNCHANGED <<nextInputReplacesLine, currentSnippetName, lastLoadedFilePath, files, pc>>
    /\ UNCHANGED <<sysVars, diskRoom, lines, idx, inImportBlock, inGlobalDeclBlock, inFuncDecl,
                   braceCount, userImports, topLevelDeclarations, statements, fullCode,
                   toolchain>>

\* default: codeLines = append(codeLines, input)
AppendInput(inp) ==
    /\ pc = "loop"
    /\ FieldsOf[inp] # <<>>
    /\ Head(FieldsOf[inp]) \notin CommandWords
    /\ ~(nextInputReplacesLine > 0 /\ ~IsCommand(inp))
    /\ Len(codeLines) < MaxBuf
    /\ codeLines' = Append(codeLines, inp)
    /\ bufferDirty' = TRUE
    /\ notice' = Note("appended", 0)
    /\ UNCHANGED <<nextInputReplacesLine, currentSnippetName, lastLoadedFilePath, files, pc>>
    /\ UNCHANGED <<sysVars, diskRoom, lines, idx, inImportBlock, inGlobalDeclBlock, inFuncDecl,
                   braceCount, userImports, topLevelDeclarations, statements, fullCode,
                   toolchain>>

(***************************************************************************)
(* SpecRepl: the command loop under the inputs of a session.               *)
(***************************************************************************)
\* the snippet directory holds one snippet, a, of one line, and takes no
\* write: every os.WriteFile of this session fails
InitRepl ==
    /\ codeLines = <<>>
    /\ InitLoop
    /\ files = [n \in SnippetNames |-> IF n = "a" THEN <<PrintOne>> ELSE NoFile]
    /\ diskRoom = 0
    /\ InitPartOn(<<>>)

\* one iteration of the loop on the line inp
Iteration(inp) ==
    \/ ReplaceEmpty(inp)
    \/ ReplaceLine(inp)
    \/ EmptyInput(inp)
    \/ CmdQuit(inp)
    \/ CmdClear(inp)
    \/ CmdShow(inp)
    \/ CmdSave(inp)
    \/ CmdLoad(inp)
    \/ CmdEdit(inp)
    \/ CmdInsert(inp)
    \/ CmdDelete(inp)
    \/ CmdUndo(inp)
    \/ CmdTidy(inp)
    \/ AppendInput(inp)

NextRepl ==
    \/ ReadError
    \/ \E inp \in ReplInputs : Iteration(inp)

SpecRepl == InitRepl /\ [][NextRepl]_vars

(***************************************************************************)
(* SpecType: a session in which lines are typed and nothing else is done.  *)
(***************************************************************************)
InitType ==
    /\ codeLines = <<>>
    /\ InitLoop
    /\ files = [n \in SnippetNames |-> NoFile]
    /\ diskRoom = 0
    /\ InitPartOn(<<>>)

NextType == \E inp \in TypedInputs : EmptyInput(inp) \/ AppendInput(inp)

SpecType == InitType /\ [][NextType]_vars

(***************************************************************************)
(* SpecEof: lines are typed until the input ends; from then on every       *)
(* rl.Readline() fails, the one of the save prompt included.               *)
(***************************************************************************)
\* the save prompt has read the end of the input
InputEnded == notice.answer = "<EOF>"

\* a line is typed while the input lasts
TypeLine ==
    /\ ~InputEnded
    /\ \E inp \in TypedInputs : EmptyInput(inp) \/ AppendInput(inp)

\* rl.Readline() of the loop fails at the end of the input, and so does the
\* rl.Readline() of promptToSave when the buffer is dirty
EndOfInput ==
    /\ ReadError
    /\ notice'.answer \in {"-", "<EOF>"}

NextEof == TypeLine \/ EndOfInput

\* the input of a session ends: the failing read is taken at some time
SpecEof == InitType /\ [][NextEof]_vars /\ WF_vars(EndOfInput)

(***************************************************************************)
(* SpecSys: calls of handleSys.  handleSys starts the command and four     *)
(* goroutines: keyPressListener, one streaming goroutine per pipe, and the *)
(* goroutine of cmd.Wait().  Every step below is one statement, or one     *)
(* blocking operation, of one of them; the scheduler interleaves them.     *)
(***************************************************************************)
\* the most lines a command writes to one stream
MaxOut == 1

\* what a call of handleSys leaves alone
outsideSys == <<codeLines, nextInputReplacesLine, bufferDirty, currentSnippetName,
                lastLoadedFilePath, files, pc, notice, diskRoom,
                lines, idx, inImportBlock, inGlobalDeclBlock, inFuncDecl, braceCount,
                userImports, topLevelDeclarations, statements, fullCode, toolchain>>

\* the arguments of :sys: none, or a command
SysArgs == {<<>>, <<"cmd">>}

\* restoreMode(): term.Restore when a state was saved, and the state is cleared
RestoreMode ==
    /\ terminal' = IF originalTerminalState = "saved" THEN "cooked" ELSE terminal
    /\ originalTerminalState' = "nil"

\* handleSys(args, rl) is called: rl.Clean(), then setRawMode(), which fails
\* or saves the state of the terminal and makes it raw; on success
\* restoreMode is deferred
HsSetRawMode(args) ==
    /\ pc = "loop"
    /\ hsPc \in {"idle", "returned"}
    /\ sysArgs' = args
    /\ \/ /\ hsPc' = "returned"
          /\ UNCHANGED <<terminal, originalTerminalState>>
       \/ /\ hsPc' = "args"
          /\ terminal' = "raw"
          /\ originalTerminalState' = "saved"
    /\ proc' = "none"
    /\ written' = [s \in Streams |-> 0]
    /\ pipe' = [s \in Streams |-> [lines |-> 0, closed |-> FALSE]]
    /\ printed' = [s \in Streams |-> 0]
    /\ readerPc' = [s \in Streams |-> "none"]
    /\ waiterPc' = "none"
    /\ listenerPc' = "none"
    /\ escapePressedChan' = 0
    /\ keyListenerStoppedChan' = 0
    /\ cmdDone' = 0
    /\ stopKeyListenerChan' = "open"
    /\ sigterm' = "none"
    /\ UNCHANGED outsideSys

\* a faulty check of the arguments: it returns before restoreMode is deferred
HsArgsBeforeDefer ==
    /\ hsPc = "args"
    /\ IF sysArgs = <<>>
       THEN hsPc' = "returned"
       ELSE hsPc' = "pipes"
    /\ UNCHANGED <<terminal, originalTerminalState>>
    /\ UNCHANGED <<sysArgs, proc, written, pipe, printed, readerPc, waiterPc, listenerPc,
                   escapePressedChan, keyListenerStoppedChan, cmdDone, stopKeyListenerChan,
                   sigterm>>
    /\ UNCHANGED outsideSys

\* if len(args) == 0 { return ... }: the deferred restoreMode runs
HsArgs ==
    /\ hsPc = "args"
    /\ IF sysArgs = <<>>
       THEN hsPc' = "returned" /\ RestoreMode
       ELSE hsPc' = "pipes" /\ UNCHANGED <<terminal, originalTerminalState>>
    /\ UNCHANGED <<sysArgs, proc, written, pipe, printed, readerPc, waiterPc, listenerPc,
                   escapePressedChan, keyListenerStoppedChan, cmdDone, stopKeyListenerChan,
                   sigterm>>
    /\ UNCHANGED outsideSys

\* cmd.StdoutPipe() and cmd.StderrPipe(): either fails and handleSys returns
HsPipes ==
    /\ hsPc = "pipes"
    /\ \/ hsPc' = "returned" /\ RestoreMode
       \/ hsPc' = "start" /\ UNCHANGED <<terminal, originalTerminalState>>
    /\ UNCHANGED <<sysArgs, proc, written, pipe, printed, readerPc, waiterPc, listenerPc,
                   escapePressedChan, keyListenerStoppedChan, cmdDone, stopKeyListenerChan,
                   sigterm>>
    /\ UNCHANGED outsideSys

\* cmd.Start() fails and handleSys returns, or the command runs and the
\* channels are made and the four goroutines started
HsStart ==
    /\ hsPc = "start"
    /\ \/ /\ hsPc' = "returned"
          /\ RestoreMode
          /\ UNCHANGED <<proc, readerPc, waiterPc, listenerPc>>
       \/ /\ hsPc' = "select"
          /\ proc' = "running"
          /\ listenerPc' = "getfl"
          /\ readerPc' = [s \in Streams |-> "scan"]
          /\ waiterPc' = "wait"
          /\ UNCHANGED <<terminal, originalTerminalState>>
    /\ UNCHANGED <<sysArgs, written, pipe, printed, escapePressedChan,
                   keyListenerStoppedChan, cmdDone, stopKeyListenerChan, sigterm>>
    /\ UNCHANGED outsideSys

\* select: case err := <-cmdDone
HsSelectDone ==
    /\ hsPc = "select"
    /\ cmdDone > 0
    /\ cmdDone' = cmdDone - 1
    /\ hsPc' = "close"
    /\ UNCHANGED <<sysArgs, terminal, originalTerminalState, proc, written, pipe, printed,
                   readerPc, waiterPc, listenerPc, escapePressedChan,
                   keyListenerStoppedChan, stopKeyListenerChan, sigterm>>
    /\ UNCHANGED outsideSys

\* select: case <-escapePressedChan
HsSelectEscape ==
    /\ hsPc = "select"
    /\ escapePressedChan > 0
    /\ escapePressedChan' = escapePressedChan - 1
    /\ hsPc' = "kill"
    /\ UNCHANGED <<sysArgs, terminal, originalTerminalState, proc, written, pipe, printed,
                   readerPc, waiterPc, listenerPc, keyListenerStoppedChan, cmdDone,
                   stopKeyListenerChan, sigterm>>
    /\ UNCHANGED outsideSys

\* syscall.Kill(-cmd.Process.Pid, syscall.SIGTERM): cmd.Process is never nil
\* after cmd.Start(); the signal goes to whatever the command is by now
HsKill ==
    /\ hsPc = "kill"
    /\ sigterm' = proc
    /\ hsPc' = "waitdone"
    /\ UNCHANGED <<sysArgs, terminal, originalTerminalState, proc, written, pipe, printed,
                   readerPc, waiterPc, listenerPc, escapePressedChan,
                   keyListenerStoppedChan, cmdDone, stopKeyListenerChan>>
    /\ UNCHANGED outsideSys

\* <-cmdDone after the signal
HsWaitDone ==
    /\ hsPc = "waitdone"
    /\ cmdDone > 0
    /\ cmdDone' = cmdDone - 1
    /\ hsPc' = "close"
    /\ UNCHANGED <<sysArgs, terminal, originalTerminalState, proc, written, pipe, printed,
                   readerPc, waiterPc, listenerPc, escapePressedChan,
                   keyListenerStoppedChan, stopKeyListenerChan, sigterm>>
    /\ UNCHANGED outsideSys

\* close(stopKeyListenerChan)
HsClose ==
    /\ hsPc = "close"
    /\ stopKeyListenerChan' = "closed"
    /\ hsPc' = "waitlistener"
    /\ UNCHANGED <<sysArgs, terminal, originalTerminalState, proc, written, pipe, printed,
                   readerPc, waiterPc, listenerPc, escapePressedChan,
                   keyListenerStoppedChan, cmdDone, sigterm>>
    /\ UNCHANGED outsideSys

\* <-keyListenerStoppedChan
HsWaitListener ==
    /\ hsPc = "waitlistener"
    /\ keyListenerStoppedChan > 0
    /\ keyListenerStoppedChan' = keyListenerStoppedChan - 1
    /\ hsPc' = "wgwait"
    /\ UNCHANGED <<sysArgs, terminal, originalTerminalState, proc, written, pipe, printed,
                   readerPc, waiterPc, listenerPc, escapePressedChan, cmdDone,
                   stopKeyListenerChan, sigterm>>
    /\ UNCHANGED outsideSys

\* wg.Wait(), then restoreMode() and return: the deferred restoreMode finds
\* originalTerminalState nil and does nothing
HsWgWait ==
    /\ hsPc = "wgwait"
    /\ \A s \in Streams : readerPc[s] = "done"
    /\ RestoreMode
    /\ hsPc' = "returned"
    /\ UNCHANGED <<sysArgs, proc, written, pipe, printed, readerPc, waiterPc, listenerPc,
                   escapePressedChan, keyListenerStoppedChan, cmdDone, stopKeyListenerChan,
                   sigterm>>
    /\ UNCHANGED outsideSys

\* what the listener leaves alone
listenerFrame == <<hsPc, sysArgs, terminal, originalTerminalState, proc, written, pipe,
                   printed, readerPc, waiterPc, cmdDone, stopKeyListenerChan, sigterm>>

\* a faulty keyPressListener: the send on keyListenerStoppedChan is deferred
\* after the first fcntl, so that a failure of it returns without the send
LsGetFlNoSignal ==
    /\ listenerPc = "getfl"
    /\ \/ listenerPc' = "done" /\ UNCHANGED keyListenerStoppedChan
       \/ listenerPc' = "setfl" /\ UNCHANGED keyListenerStoppedChan
    /\ UNCHANGED escapePressedChan
    /\ UNCHANGED listenerFrame
    /\ UNCHANGED outsideSys

\* keyPressListener: the send on keyListenerStoppedChan is deferred, then
\* fcntl(F_GETFL); when it fails the listener returns and the send is made
LsGetFl ==
    /\ listenerPc = "getfl"
    /\ \/ listenerPc' = "done" /\ keyListenerStoppedChan' = keyListenerStoppedChan + 1
       \/ listenerPc' = "setfl" /\ UNCHANGED keyListenerStoppedChan
    /\ UNCHANGED escapePressedChan
    /\ UNCHANGED listenerFrame
    /\ UNCHANGED outsideSys

\* fcntl(F_SETFL, oldFlags|O_NONBLOCK); when it fails the listener returns
LsSetFl ==
    /\ listenerPc = "setfl"
    /\ \/ listenerPc' = "done" /\ keyListenerStoppedChan' = keyListenerStoppedChan + 1
       \/ listenerPc' = "poll" /\ UNCHANGED keyListenerStoppedChan
    /\ UNCHANGED escapePressedChan
    /\ UNCHANGED listenerFrame
    /\ UNCHANGED outsideSys

\* one turn of the loop: select finds stopKeyListenerChan closed and the
\* listener returns
LsStop ==
    /\ listenerPc = "poll"
    /\ stopKeyListenerChan = "closed"
    /\ listenerPc' = "done"
    /\ keyListenerStoppedChan' = keyListenerStoppedChan + 1
    /\ UNCHANGED escapePressedChan
    /\ UNCHANGED listenerFrame
    /\ UNCHANGED outsideSys

\* one turn of the loop, default case: syscall.Read gives byte 27 and the
\* listener sends on escapePressedChan, if there is room, and returns
LsEscape ==
    /\ listenerPc = "poll"
    /\ stopKeyListenerChan = "open"
    /\ escapePressedChan' = IF escapePressedChan < 1 THEN escapePressedChan + 1
                            ELSE escapePressedChan
    /\ listenerPc' = "done"
    /\ keyListenerStoppedChan' = keyListenerStoppedChan + 1
    /\ UNCHANGED listenerFrame
    /\ UNCHANGED outsideSys

\* one turn of the loop, default case: syscall.Read fails with an error that
\* is not EAGAIN and the listener returns
LsReadError ==
    /\ listenerPc = "poll"
    /\ stopKeyListenerChan = "open"
    /\ listenerPc' = "done"
    /\ keyListenerStoppedChan' = keyListenerStoppedChan + 1
    /\ UNCHANGED escapePressedChan
    /\ UNCHANGED listenerFrame
    /\ UNCHANGED outsideSys

\* what the command, the streaming goroutines and cmd.Wait() leave alone
commandFrame == <<hsPc, sysArgs, terminal, originalTerminalState, listenerPc,
                  escapePressedChan, keyListenerStoppedChan, stopKeyListenerChan, sigterm>>

\* the command writes a line to stream s
ProcWrite(s) ==
    /\ proc = "running"
    /\ written[s] < MaxOut
    /\ written' = [written EXCEPT ![s] = @ + 1]
    /\ pipe' = [pipe EXCEPT ![s].lines = @ + 1]
    /\ UNCHANGED <<proc, printed, readerPc, waiterPc, cmdDone>>
    /\ UNCHANGED commandFrame
    /\ UNCHANGED outsideSys

\* the command exits, of itself or on SIGTERM
ProcExit ==
    /\ proc = "running"
    /\ proc' = "exited"
    /\ UNCHANGED <<written, pipe, printed, readerPc, waiterPc, cmdDone>>
    /\ UNCHANGED commandFrame
    /\ UNCHANGED outsideSys

\* scanner.Scan() gives a line and it is printed
ScanLine(s) ==
    /\ readerPc[s] = "scan"
    /\ ~pipe[s].closed
    /\ pipe[s].lines > 0
    /\ pipe' = [pipe EXCEPT ![s].lines = @ - 1]
    /\ printed' = [printed EXCEPT ![s] = @ + 1]
    /\ UNCHANGED <<proc, written, readerPc, waiterPc, cmdDone>>
    /\ UNCHANGED commandFrame
    /\ UNCHANGED outsideSys

\* scanner.Scan() gives false, at the end of the stream (the pipe is empty and
\* the command has exited) or because the read end was closed, and wg.Done()
ScanEnd(s) ==
    /\ readerPc[s] = "scan"
    /\ \/ pipe[s].closed
       \/ pipe[s].lines = 0 /\ proc \in {"exited", "reaped"}
    /\ readerPc' = [readerPc EXCEPT ![s] = "done"]
    /\ UNCHANGED <<proc, written, pipe, printed, waiterPc, cmdDone>>
    /\ UNCHANGED commandFrame
    /\ UNCHANGED outsideSys

\* cmd.Wait() returns: the command has exited and is reaped, and Wait closes
\* the read ends of the pipes that StdoutPipe and StderrPipe made
WaitReturns ==
    /\ waiterPc = "wait"
    /\ proc = "exited"
    /\ proc' = "reaped"
    /\ pipe' = [s \in Streams |-> [pipe[s] EXCEPT !.closed = TRUE]]
    /\ waiterPc' = "send"
    /\ UNCHANGED <<written, printed, readerPc, cmdDone>>
    /\ UNCHANGED commandFrame
    /\ UNCHANGED outsideSys

\* cmdDone <- cmd.Wait(): the channel has room for the one value
WaitSend ==
    /\ waiterPc = "send"
    /\ cmdDone < 1
    /\ cmdDone' = cmdDone + 1
    /\ waiterPc' = "done"
    /\ UNCHANGED <<proc, written, pipe, printed, readerPc>>
    /\ UNCHANGED commandFrame
    /\ UNCHANGED outsideSys

HandleSys ==
    \/ \E args \in SysArgs : HsSetRawMode(args)
    \/ HsArgs
    \/ HsPipes
    \/ HsStart
    \/ HsSelectDone
    \/ HsSelectEscape
    \/ HsKill
    \/ HsWaitDone
    \/ HsClose
    \/ HsWaitListener
    \/ HsWgWait

KeyPressListener == LsGetFl \/ LsSetFl \/ LsStop \/ LsEscape \/ LsReadError

Streaming == \E s \in Streams : ScanLine(s) \/ ScanEnd(s)

Command == ProcExit \/ \E s \in Streams : ProcWrite(s)

Waiter == WaitReturns \/ WaitSend

InitSysSpec ==
    /\ codeLines = <<>>
    /\ InitLoop
    /\ files = [n \in SnippetNames |-> NoFile]
    /\ diskRoom = 0
    /\ InitPartOn(<<>>)

NextSys == HandleSys \/ KeyPressListener \/ Streaming \/ Command \/ Waiter

SpecSys == InitSysSpec /\ [][NextSys]_vars

\* the statements of handleSys after setRawMode
HsRuns ==
    \/ HsArgs
    \/ HsPipes
    \/ HsStart
    \/ HsSelectDone
    \/ HsSelectEscape
    \/ HsKill
    \/ HsWaitDone
    \/ HsClose
    \/ HsWaitListener
    \/ HsWgWait

\* the steps the listener takes of itself; a key press and a read error come
\* from outside
LsRuns == LsGetFl \/ LsSetFl \/ LsStop

\* the command exits when it has been sent SIGTERM
ProcTerminates == sigterm # "none" /\ ProcExit

\* SpecSys under a scheduler that lets every goroutine run, and with a command
\* that exits on SIGTERM
SpecSysFair ==
    /\ InitSysSpec
    /\ [][NextSys]_vars
    /\ WF_vars(HsRuns)
    /\ WF_vars(LsRuns)
    /\ WF_vars(Streaming)
    /\ WF_vars(Waiter)
    /\ WF_vars(ProcTerminates)

(***************************************************************************)
(* SpecRound: a session that types, takes back, saves as b and loads b;    *)
(* the snippet directory is empty at first and takes a buffer of any       *)
(* length, though a write can still fail.                                  *)
(***************************************************************************)
InitRound ==
    /\ codeLines = <<>>
    /\ InitLoop
    /\ files = [n \in SnippetNames |-> NoFile]
    /\ diskRoom = MaxBuf + 1
    /\ InitPartOn(<<>>)

NextRound ==
    \E inp \in RoundInputs :
        \/ AppendInput(inp)
        \/ CmdUndo(inp)
        \/ CmdSave(inp)
        \/ CmdLoad(inp)

SpecRound == InitRound /\ [][NextRound]_vars

(***************************************************************************)
(* SpecTidy: :tidy, again and again, on a buffer that was typed in.        *)
(***************************************************************************)
InitTidy ==
    /\ codeLines \in SeqsUpTo(PartLines, MaxLines)
    /\ InitSys
    /\ nextInputReplacesLine = 0
    /\ bufferDirty = (codeLines # <<>>)
    /\ currentSnippetName = ""
    /\ lastLoadedFilePath = ""
    /\ pc = "loop"
    /\ notice = Note(IF codeLines = <<>> THEN "banner" ELSE "appended", 0)
    /\ files = [n \in SnippetNames |-> NoFile]
    /\ diskRoom = 0
    /\ InitPartOn(<<>>)

\* case ":tidy" on a buffer of any length
TidyBuffer ==
    /\ pc = "loop"
    /\ TidyStep(HandleTidy(codeLines))
    /\ UNCHANGED <<nextInputReplacesLine, currentSnippetName, lastLoadedFilePath, files, pc>>
    /\ UNCHANGED <<sysVars, diskRoom, lines, idx, inImportBlock, inGlobalDeclBlock, inFuncDecl,
                   braceCount, userImports, topLevelDeclarations, statements, fullCode,
                   toolchain>>

NextTidy == TidyBuffer

SpecTidy == InitTidy /\ [][NextTidy]_vars

(***************************************************************************)
(* SpecFiles: a session that saves, loads and renames snippets.  The       *)
(* snippet directory holds one snippet, a, and takes texts of up to        *)
(* MaxFile lines; any write can fail.                                      *)
(***************************************************************************)
MaxFile == 2

InitFiles ==
    /\ codeLines = <<>>
    /\ InitLoop
    /\ files = [n \in SnippetNames |-> IF n = "a" THEN <<PrintOne>> ELSE NoFile]
    /\ diskRoom = MaxFile + 1
    /\ InitPartOn(<<>>)

NextFiles ==
    \E inp \in FileInputs :
        \/ CmdSave(inp)
        \/ CmdLoad(inp)
        \/ CmdSaveAs(inp)
        \/ CmdRename(inp)
        \/ AppendInput(inp)

SpecFiles == InitFiles /\ [][NextFiles]_vars

(***************************************************************************)
(* codeTemplate as a function of its three blocks (SpecTemplate): the       *)
(* blocks are drawn from texts made of lines the skeleton itself contains.  *)
(***************************************************************************)
MaxBlock == 2

TemplateLines == {Empty, CloseParen}

TemplateBlocks == SeqsUpTo(TemplateLines, MaxBlock)

Triples == TemplateBlocks \X TemplateBlocks \X TemplateBlocks

\* fmt.Sprintf(codeTemplate, ...) of every triple
AssembledTexts ==
    LET table == [t \in Triples |-> CodeTemplate(t[1], t[2], t[3])]
    IN  IF table = table THEN table ELSE table

\* the source texts of all the triples
TemplateTexts == {AssembledTexts[t] : t \in Triples}

InitTemplate ==
    /\ codeLines = <<>>
    /\ InitLoop
    /\ files = [n \in SnippetNames |-> NoFile]
    /\ diskRoom = 0
    /\ lines = <<>>
    /\ idx = 1
    /\ inImportBlock = FALSE
    /\ inGlobalDeclBlock = FALSE
    /\ inFuncDecl = FALSE
    /\ braceCount = 0
    /\ userImports \in TemplateBlocks
    /\ topLevelDeclarations \in TemplateBlocks
    /\ statements \in TemplateBlocks
    /\ fullCode = <<>>
    /\ toolchain = "notrun"

NextTemplate == Assemble

SpecTemplate == InitTemplate /\ [][NextTemplate]_vars

(***************************************************************************)
(* Properties of separateCodeParts and executeCode (SpecPart).             *)
(***************************************************************************)
\* the line is a single-line import statement  import "X"
IsImportStmt(line) ==
    LET t == TrimSpace(line)
    IN  /\ Len(t) >= 5
        /\ t[1] = "import"
        /\ t[2] \in WhiteSpace
        /\ LET q == CHOOSE k \in 2..Len(t) :
                        t[k] \notin WhiteSpace /\ \A j \in 2..(k - 1) : t[j] \in WhiteSpace
           IN  /\ t[q] = "\""
               /\ t[Len(t)] = "\""
               /\ Len(t) - q >= 2
               /\ \A j \in (q + 1)..(Len(t) - 1) : t[j] \notin WhiteSpace \cup {"\""}

\* the quoted path "X" of a single-line import statement
QuotedPathOf(line) ==
    LET t == TrimSpace(line)
        q == CHOOSE k \in 2..Len(t) :
                 t[k] \notin WhiteSpace /\ \A j \in 2..(k - 1) : t[j] \in WhiteSpace
    IN  SubSeq(t, q, Len(t))

\* a plain statement: not blank, and its first word is no keyword of a declaration
IsPlainStatement(line) ==
    LET t == TrimSpace(line)
    IN  /\ t # <<>>
        /\ IsWord(t[1])
        /\ t[1] \notin {"import", "var", "const", "type", "func"}

\* C1: when every line of the buffer is a single-line import "X", the imports
\* block is one line per buffer line, in order, a tab and the quoted path, and
\* the declarations and statements blocks are empty.
C1_SingleImports ==
    (Separated /\ \A i \in 1..Len(codeLines) : IsImportStmt(codeLines[i]))
    => /\ userImports = [i \in 1..Len(codeLines) |-> <<"\t">> \o QuotedPathOf(codeLines[i])]
       /\ topLevelDeclarations = <<>>
       /\ statements = <<>>

\* the running parenthesis balance of ls[i..k]
RECURSIVE ParenBalance(_, _, _)
ParenBalance(ls, i, k) ==
    IF k < i THEN 0
    ELSE ParenBalance(ls, i, k - 1) + Count(ls[k], "(") - Count(ls[k], ")")

\* ls[i..j] is a balanced group  var ( ... ) : it opens with `var (`, its
\* balance first returns to zero on line j, and the lines inside are specs
IsVarGroup(ls, i, j) ==
    /\ 1 <= i /\ i < j /\ j <= Len(ls)
    /\ LET t == TrimSpace(ls[i])
       IN  Len(t) >= 3 /\ t[1] = "var" /\ t[Len(t)] = "("
           /\ \A m \in 2..(Len(t) - 1) : t[m] \in WhiteSpace
    /\ \A k \in i..(j - 1) : ParenBalance(ls, i, k) > 0
    /\ ParenBalance(ls, i, j) = 0
    /\ \A k \in (i + 1)..(j - 1) : TrimSpace(ls[k]) = <<>> \/ IsPlainStatement(ls[k])

\* the line opens and closes as many parentheses and braces as it holds
IsBalancedLine(line) ==
    /\ Count(line, "(") = Count(line, ")")
    /\ Count(line, "{") = Count(line, "}")

\* C2: every line of a balanced var ( ... ) group is emitted unchanged into the
\* declarations block and not into the statements block, whatever precedes it
\* (stated here for the buffers in which every line before the group is by
\* itself balanced in parentheses and braces).
C2_VarGroup ==
    [][(/\ ~Separated
        /\ \E i \in 1..idx, j \in idx..Len(lines) :
               /\ IsVarGroup(lines, i, j)
               /\ \A k \in 1..(i - 1) : IsBalancedLine(lines[k]))
       => /\ topLevelDeclarations' = Append(topLevelDeclarations, lines[idx])
          /\ statements' = statements]_vars

\* C3: single-line imports followed by plain statements: the imports block is
\* the imported paths in order, the declarations block is empty, the
\* statements block is the statement lines unchanged and in order.
C3_ImportsThenStatements ==
    \A n \in 0..Len(codeLines) :
        (/\ Separated
         /\ \A i \in 1..n : IsImportStmt(codeLines[i])
         /\ \A i \in (n + 1)..Len(codeLines) : IsPlainStatement(codeLines[i]))
        => /\ userImports = [i \in 1..n |-> <<"\t">> \o QuotedPathOf(codeLines[i])]
           /\ topLevelDeclarations = <<>>
           /\ statements = SubSeq(codeLines, n + 1, Len(codeLines))

\* the buffer of the example
HelloBuf == <<ImportFmt, PrintOne>>

\* C4: the source assembled from [import "fmt", fmt.Println(1)] imports no
\* path twice, so the toolchain accepts it.
C4_HelloAssembles ==
    (codeLines = HelloBuf /\ fullCode # <<>>) => ~DuplicateImport(fullCode)

\* C15: executeCode returns an error, and :run prints the error status line,
\* whenever the toolchain did not run the program to a normal exit: when go run
\* exits non-zero and when the go command could not be started; :run reports
\* success only when the program ran and exited normally.
C15_FailureReported ==
    toolchain # "notrun" => (notice.msg = "execution successful" <=> toolchain = "ok")

\* C19: function-declaration mode ends on the line at which the brace balance
\* of the function returns to <= 0, also when that line is the func line
\* itself: after that line the classifier is in default mode, and a plain
\* statement that follows is emitted into the statements block.
C19_FuncModeEnds ==
    [][(/\ ~Separated
        /\ idx' = idx + 1
        /\ ~inImportBlock
        /\ ~inGlobalDeclBlock
        /\ inFuncDecl \/ FuncDeclStartMatch(TrimSpace(lines[idx]))
        /\ braceCount + Count(lines[idx], "{") - Count(lines[idx], "}") <= 0)
       => /\ ~inFuncDecl'
          /\ braceCount' = 0
          /\ (idx' <= Len(lines) /\ IsPlainStatement(lines[idx']))
             => Classify(Locals', lines[idx']).statements = Append(statements', lines[idx'])]_vars

\* ls[i..j] is an import group: it opens with `import (`, its depth, 1 after
\* the opener, first drops to <= 0 on line j, and no line inside opens a group
IsImportGroup(ls, i, j) ==
    /\ 1 <= i /\ i < j /\ j <= Len(ls)
    /\ ImportGroupMatch(TrimSpace(ls[i]))
    /\ \A k \in (i + 1)..(j - 1) :
           1 + ParenBalance(ls, i + 1, k) > 0 /\ ~ImportGroupMatch(TrimSpace(ls[k]))
    /\ 1 + ParenBalance(ls, i + 1, j) <= 0

\* C20: for an import group, the opener and the line on which the depth
\* (starting at 1) drops to <= 0 are emitted into no block, every line between
\* them is emitted raw into the imports block, and after the closing line the
\* classifier is back in default mode with depth 0 (stated for the buffers in
\* which every line before the group is by itself balanced in parentheses and
\* braces).
C20_ImportGroup ==
    [][(/\ ~Separated
        /\ idx' = idx + 1)
       => \A i \in 1..idx, j \in idx..Len(lines) :
             (IsImportGroup(lines, i, j) /\ \A k \in 1..(i - 1) : IsBalancedLine(lines[k]))
             => /\ UNCHANGED <<topLevelDeclarations, statements>>
                /\ userImports' = IF i < idx /\ idx < j THEN Append(userImports, lines[idx])
                                  ELSE userImports
                /\ idx = j => /\ ~inImportBlock'
                              /\ ~inGlobalDeclBlock'
                              /\ ~inFuncDecl'
                              /\ braceCount' = 0]_vars

\* C21: after every line processed by separateCodeParts at most one of the
\* mode flags inImportBlock, inGlobalDeclBlock and inFuncDecl is true, for
\* every buffer, also one with an `import (` line inside a function body or
\* inside a declaration group.
C21_OneModeAtMost ==
    Cardinality({f \in {"import", "global", "func"} :
                    \/ f = "import" /\ inImportBlock
                    \/ f = "global" /\ inGlobalDeclBlock
                    \/ f = "func" /\ inFuncDecl}) <= 1

\* how often the character c stands in the raw line
RawCount(line, c) == Cardinality({i \in 1..Len(line) : line[i] = c})

\* C27: depth tracking counts every `(` and `)` (import and declaration
\* groups) or every `{` and `}` (function bodies) of the raw line, also those
\* inside string literals: the depth after a line of an open group or function
\* is the depth before plus the openers minus the closers of the line, and at
\* <= 0 the mode ends with depth 0; the line  s := "}"  at depth 1 inside a
\* function body ends function-declaration mode.
C27_RawDepthCount ==
    [][(~Separated /\ idx' = idx + 1)
       => LET line  == lines[idx]
              t     == TrimSpace(line)
              byPar == braceCount + RawCount(line, "(") - RawCount(line, ")")
              byBr  == braceCount + RawCount(line, "{") - RawCount(line, "}")
              inImp == inImportBlock /\ ~ImportGroupMatch(t)
              other == ImportGroupMatch(t) \/ inImportBlock \/ ImportSingleMatch(t)
              start == ~inFuncDecl /\ GlobalDeclStartMatch(t)
              inGlo == ~other /\ ~start /\ inGlobalDeclBlock
              inFun == ~other /\ ~start /\ ~inGlobalDeclBlock /\ ~FuncDeclStartMatch(t)
                       /\ inFuncDecl
          IN  /\ inImp => /\ inImportBlock' = (byPar > 0)
                          /\ braceCount' = IF byPar > 0 THEN byPar ELSE 0
              /\ inGlo => /\ inGlobalDeclBlock' = (byPar > 0)
                          /\ braceCount' = IF byPar > 0 THEN byPar ELSE 0
              /\ inFun => /\ inFuncDecl' = (byBr > 0)
                          /\ braceCount' = IF byBr > 0 THEN byBr ELSE 0
              /\ (inFun /\ line = StrBrace /\ braceCount = 1) => ~inFuncDecl']_vars

\* s := "}" was the line after `func f() {` and ended function mode
C27_Witness ==
    /\ lines = <<FuncOpen, StrBrace>>
    /\ Separated
    /\ ~inFuncDecl
    /\ braceCount = 0
    /\ topLevelDeclarations = <<FuncOpen, StrBrace>>

\* C28: a line that starts with var, const or type and does not end with `(`,
\* met outside a function and outside an import group, is emitted into the
\* declarations block and leaves the mode flags and the depth as they were,
\* whatever braces it holds; so after `type T struct {` at top level the lines
\* of the body and the closing `}` are emitted into the statements block.
C28_SingleLineDecl ==
    [][(/\ ~Separated
        /\ idx' = idx + 1
        /\ ~inImportBlock
        /\ ~inFuncDecl
        /\ GlobalDeclStartMatch(TrimSpace(lines[idx]))
        /\ ~HasSuffix(TrimSpace(lines[idx]), "("))
       => /\ topLevelDeclarations' = Append(topLevelDeclarations, lines[idx])
          /\ UNCHANGED <<userImports, statements, inImportBlock, inGlobalDeclBlock,
                         inFuncDecl, braceCount>>
          /\ (/\ ~inGlobalDeclBlock
              /\ idx' <= Len(lines)
              /\ LET n == TrimSpace(lines[idx'])
                 IN  /\ n # <<>>
                     /\ ~ImportGroupMatch(n) /\ ~ImportSingleMatch(n)
                     /\ ~GlobalDeclStartMatch(n) /\ ~FuncDeclStartMatch(n))
             => /\ Classify(Locals', lines[idx']).statements = Append(statements', lines[idx'])
                /\ Classify(Locals', lines[idx']).topLevelDeclarations = topLevelDeclarations']_vars

\* the field and the closing brace of a struct type went to the statements
C28_Witness ==
    /\ lines = <<TypeOpen, FieldX, CloseBrace>>
    /\ Separated
    /\ topLevelDeclarations = <<TypeOpen>>
    /\ statements = <<FieldX, CloseBrace>>
    /\ braceCount = 0

\* block b grew by the one line e at its end, or stayed as it was
GrewBy(old, new, e) == new = old \/ new = Append(old, e)

\* C39: separateCodeParts accounts for every line once: a line that is not
\* blank is written to one of the three blocks, at its end, and to no other,
\* except the opener and the closing line of an import group, which are
\* written nowhere; a blank line is dropped only when no block is open, and
\* otherwise goes to the block that is open.
C39_EveryLineOnce ==
    [][(~Separated /\ idx' = idx + 1)
       => LET line   == lines[idx]
              t      == TrimSpace(line)
              open   == inImportBlock \/ inGlobalDeclBlock \/ inFuncDecl
              opener == ImportGroupMatch(t)
              closer == /\ ~opener
                        /\ inImportBlock
                        /\ braceCount + RawCount(line, "(") - RawCount(line, ")") <= 0
              entry  == IF ~opener /\ ~inImportBlock /\ ImportSingleMatch(t)
                        THEN <<"\t">> \o ImportSingleCapture(t)
                        ELSE line
              total  == Len(userImports) + Len(topLevelDeclarations) + Len(statements)
              total2 == Len(userImports') + Len(topLevelDeclarations') + Len(statements')
          IN  /\ GrewBy(userImports, userImports', entry)
              /\ GrewBy(topLevelDeclarations, topLevelDeclarations', entry)
              /\ GrewBy(statements, statements', entry)
              /\ total2 = total + (IF opener \/ closer \/ (t = <<>> /\ ~open) THEN 0 ELSE 1)
              /\ (t = <<>> /\ inGlobalDeclBlock /\ ~inImportBlock)
                     => topLevelDeclarations' = Append(topLevelDeclarations, line)]_vars

\* the blank line inside a var group was kept, between its opener and its
\* closing line
C39_Witness ==
    /\ lines = <<VarOpen, Empty, CloseParen>>
    /\ Separated
    /\ topLevelDeclarations = <<VarOpen, Empty, CloseParen>>
    /\ userImports = <<>>
    /\ statements = <<>>

(***************************************************************************)
(* Properties of successive calls (SpecCalls).                             *)
(***************************************************************************)
\* C18: separateCodeParts is deterministic and keeps no classification state
\* between calls: the three blocks (and the flags) a call returns are those of
\* its lines alone, whatever buffer was partitioned before, even one that
\* ended inside an unclosed block; an empty buffer gives three empty blocks.
C18_NoStateBetweenCalls ==
    /\ idx = 1 => Locals = InitialParts
    /\ Separated => Locals = SeparateCodeParts(codeLines)
    /\ (Separated /\ codeLines = <<>>)
       => (userImports = <<>> /\ topLevelDeclarations = <<>> /\ statements = <<>>)

\* a later call (the status line of an earlier :run is on the screen) has
\* returned the one statement of its buffer
C18_Witness ==
    /\ notice.msg \in {"execution successful", "finished with error status"}
    /\ toolchain = "notrun"
    /\ Separated
    /\ codeLines = <<PrintOne>>
    /\ statements = <<PrintOne>>
    /\ topLevelDeclarations = <<>>

(***************************************************************************)
(* Properties of the command loop (SpecRepl).                              *)
(***************************************************************************)
\* the lines  :insert n  and  :delete n  as the user types them
InsertInput(n) == <<":", "insert", " ", Digits[n + 1]>>
DeleteInput(n) == <<":", "delete", " ", Digits[n + 1]>>

\* the arguments of :insert and :delete that are no line number of a buffer of
\* length L, max being L + 1 for :insert and L for :delete
InvalidArgs(max) ==
    {<<"x">>, <<"-", "1">>, <<"0">>} \cup {<<Digits[k + 1]>> : k \in (max + 1)..(MaxBuf + 1)}

\* C5: on a buffer of length L and for n in 1..L+1, :insert n gives the old
\* lines 1..n-1, an empty line, the old lines n..L, and targets line n; the
\* input line s that follows, when it holds a character that is no white space
\* and is no command, replaces that empty line: the buffer is the old lines
\* 1..n-1, s, the old lines n..L, of length L+1, and nothing is appended.
C5_InsertThenInput ==
    [][/\ \A n \in 1..(Len(codeLines) + 1) :
              Iteration(InsertInput(n))
              => /\ codeLines' = SubSeq(codeLines, 1, n - 1) \o <<Empty>>
                                     \o SubSeq(codeLines, n, Len(codeLines))
                 /\ nextInputReplacesLine' = n
                 /\ notice' = Note("inserted", n)
       /\ \A s \in CodeInputs :
              (/\ notice.msg = "inserted"
               /\ TrimSpace(s) # <<>>
               /\ Iteration(s))
              => /\ notice.n \in 1..Len(codeLines)
                 /\ codeLines[notice.n] = Empty
                 /\ codeLines' = SubSeq(codeLines, 1, notice.n - 1) \o <<s>>
                                     \o SubSeq(codeLines, notice.n + 1, Len(codeLines))
                 /\ Len(codeLines') = Len(codeLines)]_vars

\* a line was inserted in the middle of a buffer and then filled
C5_Witness ==
    /\ notice = Note("updated", 2)
    /\ codeLines = <<WhatLine, PrintOne, WhatLine>>

\* C6: on a buffer of length L and for n in 1..L, :delete n gives the buffer
\* of length L-1 made of the old lines 1..n-1 and n+1..L in their order, and
\* the buffer is dirty.
C6_DeleteLine ==
    [][\A n \in 1..Len(codeLines) :
           Iteration(DeleteInput(n))
           => /\ Len(codeLines') = Len(codeLines) - 1
              /\ \A i \in 1..(n - 1) : codeLines'[i] = codeLines[i]
              /\ \A i \in n..(Len(codeLines) - 1) : codeLines'[i] = codeLines[i + 1]
              /\ bufferDirty']_vars

\* line 2 of a buffer of three lines was deleted
C6_Witness ==
    /\ notice = Note("deleted", 2)
    /\ codeLines = <<PrintOne, WhatLine>>
    /\ bufferDirty

\* C7: :delete n with n < 1, n > length or n no number, and :insert n with
\* n < 1, n > length+1 or n no number, leave the buffer, the dirty flag and the
\* line the next input replaces as they were: a step that changes one of the
\* three is no iteration on such a command.
C7_InvalidLineRejected ==
    [][\/ UNCHANGED <<codeLines, bufferDirty, nextInputReplacesLine>>
       \/ /\ \A a \in InvalidArgs(Len(codeLines)), w \in {"delete", "d"} :
                 <<":", w, " ">> \o a \in ReplInputs => ~Iteration(<<":", w, " ">> \o a)
          /\ \A a \in InvalidArgs(Len(codeLines) + 1), w \in {"insert", "i"} :
                 <<":", w, " ">> \o a \in ReplInputs => ~Iteration(<<":", w, " ">> \o a)]_vars

\* a line number was rejected while a line waited for its replacement and the
\* buffer was not dirty
C7_Witness ==
    /\ notice = Note("invalid line number", 0)
    /\ nextInputReplacesLine > 0
    /\ ~bufferDirty
    /\ Len(codeLines) = 2

\* C8: the command loop never indexes the buffer outside its length.
C8_NeverPanics == pc # "panic"

\* C9: :undo on an empty buffer leaves the buffer empty and the dirty flag as
\* it was and prints the notice; on a buffer that is not empty it removes the
\* last line and leaves the other lines as they were.
C9_Undo ==
    [][\A inp \in {<<":", "undo">>, <<":", "u">>} :
           Iteration(inp)
           => IF codeLines = <<>>
              THEN /\ codeLines' = <<>>
                   /\ bufferDirty' = bufferDirty
                   /\ notice' = Note("nothing to undo", 0)
              ELSE /\ Len(codeLines') = Len(codeLines) - 1
                   /\ \A i \in 1..Len(codeLines') : codeLines'[i] = codeLines[i]]_vars

\* :undo found a dirty buffer empty
C9_Witness ==
    /\ notice = Note("nothing to undo", 0)
    /\ codeLines = <<>>
    /\ bufferDirty

\* format.Source rejects the source handleTidy assembles from buf
FormatRejects(buf) ==
    LET parts == SeparateCodeParts(buf)
    IN  FormatSource(CodeTemplateForTidy(parts.userImports, parts.topLevelDeclarations,
                                         parts.statements)).err

\* C10: when format.Source rejects the assembled source, handleTidy returns
\* the error and :tidy leaves the buffer, the dirty flag and the line the next
\* input replaces as they were.
C10_TidyRejected ==
    [][(Iteration(<<":", "tidy">>) /\ codeLines # <<>> /\ FormatRejects(codeLines))
       => /\ HandleTidy(codeLines).err
          /\ notice' = Note("error tidying code", 0)
          /\ UNCHANGED <<codeLines, bufferDirty, nextInputReplacesLine>>]_vars

\* the formatter rejected a buffer that was not dirty while a line waited for
\* its replacement
C10_Witness ==
    /\ notice = Note("error tidying code", 0)
    /\ nextInputReplacesLine > 0
    /\ ~bufferDirty
    /\ \E i \in 1..Len(codeLines) : codeLines[i] = WhatLine

\* what was last loaded, or the empty buffer at the start and after :clear.
\* No :save of SpecRepl succeeds, so nothing else was ever persisted
Snapshot == IF lastLoadedFilePath = "" THEN <<>> ELSE files[lastLoadedFilePath]

\* C12: whenever the buffer differs from what was last saved or loaded, or
\* from the empty buffer of the start and of :clear, bufferDirty is true; a
\* :save or :load that fails does not clear the flag.
C12_DirtyWhenChanged ==
    pc = "loop" => (codeLines # Snapshot => bufferDirty)

\* the line the user types to leave
QuitInput == <<":", "q">>

\* C13: the loop ends, on :q or on a failed read, only when bufferDirty is
\* false or the user was asked whether to save in that iteration and answered
\* yes or no; on any other answer the loop goes on and the buffer is as it was.
C13_ExitOnlyAfterPrompt ==
    [][(pc = "loop" /\ (ReadError \/ Iteration(QuitInput)))
       => /\ bufferDirty <=> notice'.answer # "-"
          /\ pc' = "exit" => (~bufferDirty \/ notice'.answer \in {"y", "n"})
          /\ notice'.answer \notin {"-", "y", "n"}
                => (pc' = "loop" /\ UNCHANGED <<codeLines, bufferDirty>>)
          /\ pc' \in {"loop", "exit"}]_vars

\* the loop ended on a dirty buffer after the user declined to save
C13_Witness ==
    /\ pc = "exit"
    /\ bufferDirty
    /\ codeLines # <<>>
    /\ notice = Asked("exiting", "n")

\* the lines the user types to load the snippet a and to clear the buffer
LoadInput == <<":", "load", " ", "a">>
ClearInput == <<":", "clear">>

\* C14: a :load that succeeds makes the buffer the lines of the file, a :clear
\* that is not cancelled at the save prompt makes it empty; after both the
\* buffer is clean and no line waits for its replacement, after :clear no
\* snippet name and no last loaded path is left; and either command leaves the
\* buffer whole: as it was, or replaced.
C14_LoadAndClear ==
    [][/\ Iteration(LoadInput)
          => /\ notice'.msg = "loaded"
                => /\ codeLines' = files'["a"]
                   /\ ~bufferDirty'
                   /\ nextInputReplacesLine' = 0
             /\ codeLines' \in {codeLines, files'["a"]}
             /\ (notice'.msg # "loaded" /\ files'["a"] # codeLines) => codeLines' = codeLines
       /\ Iteration(ClearInput)
          => /\ notice'.msg # "cancelled"
                => /\ codeLines' = <<>>
                   /\ ~bufferDirty'
                   /\ nextInputReplacesLine' = 0
                   /\ currentSnippetName' = ""
                   /\ lastLoadedFilePath' = ""
             /\ notice'.msg = "cancelled" => codeLines' = codeLines
             /\ notice'.answer \in {"-", "y", "n"} <=> notice'.msg # "cancelled"]_vars

\* the snippet a was loaded over a dirty buffer that the user declined to save
C14_Witness ==
    /\ notice = Asked("loaded", "n")
    /\ codeLines = files["a"]
    /\ ~bufferDirty
    /\ nextInputReplacesLine = 0
    /\ currentSnippetName = "a"

(***************************************************************************)
(* Properties of handleTidy (SpecTidy).                                    *)
(***************************************************************************)
\* C11: handleTidy is idempotent: on a buffer that a :tidy has just returned,
\* :tidy succeeds again and returns that same buffer, line for line.
C11_TidyIdempotent ==
    [][(notice = Note("tidied", 0) /\ codeLines # <<>> /\ TidyBuffer)
       => (notice' = Note("tidied", 0) /\ codeLines' = codeLines)]_vars

(***************************************************************************)
(* Properties of the template (SpecTemplate).                              *)
(***************************************************************************)
\* C16: assembly by template substitution is injective: two triples of blocks
\* (imports, declarations, statements) that differ in a component, neither
\* holding a comment line of the skeleton, give different source texts: the
\* text assembled is the text of its triple, and the triples have as many texts
\* as there are triples.
C16_TemplateInjective ==
    fullCode # <<>>
    => /\ <<userImports, topLevelDeclarations, statements>> \in Triples
       /\ fullCode = CodeTemplate(userImports, topLevelDeclarations, statements)
       /\ Cardinality(TemplateTexts) = Cardinality(Triples)

C16_Witness ==
    /\ fullCode # <<>>
    /\ userImports = <<CloseParen, Empty>>
    /\ topLevelDeclarations = <<>>
    /\ statements = <<CloseParen>>

\* C22: in every reachable state of the command loop, when replace mode is
\* armed (nextInputReplacesLine = n > 0), n is a valid 1-based index of the
\* buffer and line n is the empty line that :insert put there.
C22_ArmedLineIsBlank ==
    (pc = "loop" /\ nextInputReplacesLine > 0)
    => /\ nextInputReplacesLine <= Len(codeLines)
       /\ codeLines[nextInputReplacesLine] = Empty

\* C23: while replace mode is armed on a line of the buffer, every input line
\* that is not blank and whose first word is none of the commands (also a
\* word that starts with `:` and is no command) overwrites the target line and
\* disarms replace mode; it is never appended to the buffer.
C23_BufferInputReplaces ==
    [][\A inp \in ReplInputs :
          (/\ pc = "loop"
           /\ nextInputReplacesLine \in 1..Len(codeLines)
           /\ FieldsOf[inp] # <<>>
           /\ Head(FieldsOf[inp]) \notin CommandWords
           /\ Iteration(inp))
          => /\ codeLines' = [codeLines EXCEPT ![nextInputReplacesLine] = inp]
             /\ nextInputReplacesLine' = 0]_vars

\* the file handleSave writes when it is given no name
DefaultTarget ==
    IF currentSnippetName # "" THEN currentSnippetName
    ELSE IF lastLoadedFilePath # "" THEN lastLoadedFilePath
    ELSE "ts"

\* C29: when the answer to "Save now? (y/n)" is yes, the guarded action
\* (:quit, :clear, :load, the exit at end of input) goes on only after the
\* buffer was written; when the write fails the buffer is not discarded and
\* the loop goes on.
C29_SavedBeforeProceeding ==
    [][(pc = "loop" /\ bufferDirty /\ notice'.answer = "y" /\ notice' # notice)
       => \/ files'[DefaultTarget] = SplitJoin(codeLines)
          \/ (codeLines' = codeLines /\ pc' = "loop" /\ bufferDirty')]_vars

\* the inputs whose command word is :delete or :d
DeleteInputs ==
    {inp \in ReplInputs :
        FieldsOf[inp] # <<>> /\ Head(FieldsOf[inp]) \in {<<":", "delete">>, <<":", "d">>}}

\* C30: after every :delete that removes a line (one argument, a number
\* between 1 and the length of the buffer) nextInputReplacesLine is 0, whether
\* replace mode was armed or not.
C30_DeleteDisarms ==
    [][\A inp \in DeleteInputs :
          (/\ pc = "loop"
           /\ Len(Args(inp)) = 1
           /\ ~InvalidLineNumber(Atoi(Args(inp)[1]), Len(codeLines))
           /\ Iteration(inp))
          => /\ nextInputReplacesLine' = 0
             /\ Len(codeLines') = Len(codeLines) - 1]_vars

\* line 2 was deleted while line 1, the blank line of :insert 1, was armed
C30_Witness ==
    /\ pc = "loop"
    /\ notice = Note("deleted", 2)
    /\ codeLines = <<Empty>>
    /\ nextInputReplacesLine = 0

\* the inputs that are empty or hold white space only
BlankInputs == {inp \in ReplInputs : TrimSpace(inp) = <<>>}

\* C31: while replace mode is armed, an input that is empty or white space
\* only disarms replace mode and leaves the buffer, the blank line of :insert
\* included, and the dirty flag as they were.
C31_EmptyInputDisarms ==
    [][\A inp \in BlankInputs :
          (pc = "loop" /\ nextInputReplacesLine > 0 /\ Iteration(inp))
          => /\ nextInputReplacesLine' = 0
             /\ codeLines' = codeLines
             /\ bufferDirty' = bufferDirty
             /\ pc' = "loop"]_vars

\* the blank line of :insert 2 was left empty, after the line typed first
C31_Witness ==
    /\ pc = "loop"
    /\ notice = Note("remains empty", 2)
    /\ codeLines = <<PrintOne, Empty>>
    /\ nextInputReplacesLine = 0
    /\ bufferDirty

(***************************************************************************)
(* Properties of typing (SpecType).                                        *)
(***************************************************************************)
\* C32: when replace mode is not armed, an input that is not empty and whose
\* first word is no command of the loop is appended as typed, indentation
\* included, as the new last line, the lines before it stay and the buffer is
\* dirty; an input that is empty or white space only changes neither the buffer
\* nor the dirty flag.
C32_AppendVerbatim ==
    [][\A inp \in TypedInputs :
          (pc = "loop" /\ nextInputReplacesLine = 0 /\ Iteration(inp))
          => IF TrimSpace(inp) = <<>>
             THEN codeLines' = codeLines /\ bufferDirty' = bufferDirty
             ELSE (Head(Fields(TrimSpace(inp))) \notin CommandWords)
                  => /\ Len(codeLines') = Len(codeLines) + 1
                     /\ codeLines'[Len(codeLines')] = inp
                     /\ SubSeq(codeLines', 1, Len(codeLines)) = codeLines
                     /\ bufferDirty']_vars

\* a plain line, an indented line and an indented word with a colon were appended
C32_Witness ==
    /\ pc = "loop"
    /\ codeLines = <<PrintOne, IndentedPrint, IndentedWhat>>
    /\ bufferDirty
    /\ nextInputReplacesLine = 0

(***************************************************************************)
(* Properties of the end of the input (SpecEof).                           *)
(***************************************************************************)
\* C33: once the input has ended, so that every further read fails, the
\* command loop terminates at some time, also when the buffer is dirty and the
\* save prompt reads the end of the input itself.
C33_LoopTerminates == <>(pc = "exit")

(***************************************************************************)
(* Properties of handleSys (SpecSys).                                      *)
(***************************************************************************)
\* C34: when handleSys has made the terminal raw, the terminal is back in its
\* original mode whenever handleSys returns (no command given, a pipe or the
\* start failed, the command ended, Escape was pressed), and it is put back
\* only when the key listener has stopped.
C34_TerminalRestored ==
    [][/\ (hsPc' = "returned") => (terminal' = "cooked" /\ originalTerminalState' = "nil")
       /\ (terminal = "raw" /\ terminal' = "cooked") => (listenerPc \in {"none", "done"})]_vars

\* handleSys has returned after Escape: the terminal is cooked again
C34_Witness ==
    /\ hsPc = "returned"
    /\ sigterm # "none"
    /\ listenerPc = "done"
    /\ terminal = "cooked"

\* C36: SIGTERM is sent to the process group of the command only while the
\* command runs: however the press of Escape and the end of the command
\* interleave, the signal is never sent after cmd.Wait() has returned, when
\* the process is reaped.
C36_SignalWhileRunning == sigterm # "reaped"

\* C37: when handleSys returns, every line the command wrote to its stdout or
\* stderr before it exited has been printed by the streaming goroutines,
\* however cmd.Wait(), in its goroutine, and the two readers interleave.
C37_AllOutputPrinted ==
    (hsPc = "returned" /\ proc = "reaped") => \A s \in Streams : printed[s] = written[s]

(***************************************************************************)
(* Properties of handleSys under a fair scheduler (SpecSysFair).           *)
(***************************************************************************)
\* the command of the call has exited, or Escape was read and handed over
CommandOver ==
    /\ hsPc \notin {"idle", "returned"}
    /\ \/ proc \in {"exited", "reaped"}
       \/ escapePressedChan > 0
       \/ hsPc \in {"kill", "waitdone"}

\* handleSys has returned and none of its goroutines is left
AllReturned ==
    /\ hsPc = "returned"
    /\ listenerPc = "done"
    /\ waiterPc = "done"
    /\ \A s \in Streams : readerPc[s] = "done"

\* C35: once the command has exited or Escape was pressed, handleSys returns
\* (the command exits when sent SIGTERM): the key listener stops after
\* stopKeyListenerChan is closed and sends on keyListenerStoppedChan on every
\* path by which it returns, both streaming goroutines finish, and no goroutine
\* stays blocked on a channel.
C35_HandleSysReturns == CommandOver ~> AllReturned

\* handleSys returned after Escape ended a running command
C35_Witness ==
    /\ AllReturned
    /\ sigterm = "running"
    /\ proc = "reaped"
    /\ cmdDone = 0
    /\ keyListenerStoppedChan = 0

(***************************************************************************)
(* Properties of saving and loading (SpecRound).                           *)
(***************************************************************************)
\* C38: for every buffer, the empty one included, :save b that writes the
\* file followed by :load b gives a buffer of the same lines, as many and the
\* same, as the buffer that was saved.
C38_SaveLoadRoundTrip ==
    [][(/\ pc = "loop"
        /\ notice = Note("saved", 0)
        /\ currentSnippetName = "b"
        /\ Iteration(LoadB))
       => codeLines' = codeLines]_vars

(***************************************************************************)
(* Properties of the snippet files (SpecFiles).                            *)
(***************************************************************************)
\* C17: :rename renames the file of the active snippet: after a successful
\* :load, :save, :saveas or :rename a snippet name is set and
\* lastLoadedFilePath is the saved file of that same snippet.
C17_RenameFindsActive ==
    (pc = "loop" /\ notice.msg \in {"loaded", "saved", "saved as", "renamed"})
    => /\ currentSnippetName # ""
       /\ lastLoadedFilePath = currentSnippetName
       /\ files[lastLoadedFilePath] # NoFile

\* the lines of the skeleton that open the program and the main function
SkeletonLines == {<<"package", " ", "main">>, <<"func", " ", "main", "(", ")", " ", "{">>}

\* C24: after a successful tidy the buffer holds no line of the assembly
\* skeleton, neither `package main` nor the `func main() {` wrapper: the main
\* function is always found in the re-partitioned declarations and stripped
\* from them, for every accepted buffer, also one whose statements hold a `}`
\* inside a string literal.
C24_NoSkeletonAfterTidy ==
    (pc = "loop" /\ notice = Note("tidied", 0))
    => \A i \in 1..Len(codeLines) : TrimSpace(codeLines[i]) \notin SkeletonLines

\* the formatted program of handleTidy on the buffer buf
FormattedOf(buf) ==
    LET parts == SeparateCodeParts(buf)
    IN  FormatSource(CodeTemplateForTidy(parts.userImports, parts.topLevelDeclarations,
                                         parts.statements)).out

\* how many lines of ls are c, apart from the white space around them
Occurrences(ls, c) == Cardinality({i \in 1..Len(ls) : TrimSpace(ls[i]) = c})

\* the lines the skeleton has once in every formatted program: the package
\* clause, the import clause, the opening of main and its closing brace
SkeletonOnce ==
    SkeletonLines \cup {<<"import", " ", "(">>, <<")">>, <<"import", " ", "(", ")">>, <<"}">>}

\* C25: in handleTidy's re-partition of the formatted source the statements
\* output that is thrown away holds no user code: every import, every line of
\* every top-level declaration (also the body lines of a multi-line `type`
\* declaration) and every line of main's body in the formatted program appears
\* in the returned buffer, an import path alone or after the word import.
C25_TidyKeepsUserCode ==
    [][(TidyBuffer /\ notice' = Note("tidied", 0))
       => LET formatted == FormattedOf(codeLines)
          IN  \A i \in 1..Len(formatted) :
                 LET c == TrimSpace(formatted[i])
                 IN  c # <<>>
                     => Occurrences(codeLines', c) + Occurrences(codeLines', <<"import", " ">> \o c)
                            >= Occurrences(formatted, c) - (IF c \in SkeletonOnce THEN 1 ELSE 0)]_vars

\* the three sections of a formatted program, read off its structure: the
\* specs of its import clause, the lines between the import clause and the
\* main function that closes the program, and the lines of main's body
SectionsOf(formatted) ==
    LET mains   == {i \in 1..Len(formatted) : formatted[i] \in SkeletonLines
                                               /\ formatted[i][1] = "func"}
        m       == CHOOSE i \in mains : \A j \in mains : j <= i
        clauses == {i \in 1..Len(formatted) :
                        formatted[i] \in {<<"import", " ", "(">>, <<"import", " ", "(", ")">>}}
        a       == CHOOSE i \in clauses : \A j \in clauses : i <= j
        ends    == {i \in a..Len(formatted) : formatted[i] \in {<<")">>, <<"import", " ", "(", ")">>}}
        e       == CHOOSE i \in ends : \A j \in ends : i <= j
    IN  [imports |-> SubSeq(formatted, a + 1, e - 1),
         decls   |-> SubSeq(formatted, e + 1, m - 1),
         body    |-> SubSeq(formatted, m + 1, Len(formatted) - 1)]

\* the lines that are not blank, each without the white space around it
SolidLines(ls) == SelectSeq([i \in 1..Len(ls) |-> TrimSpace(ls[i])], LAMBDA x : x # <<>>)

\* ls is the section sec: it opens and closes with a line that is not blank,
\* and its lines that are not blank are those of sec
IsSection(ls, sec) ==
    /\ ls # <<>>
    /\ TrimSpace(ls[1]) # <<>>
    /\ TrimSpace(ls[Len(ls)]) # <<>>
    /\ SolidLines(ls) = sec

\* ls is the sections secs in order, exactly one blank line between two of them
RECURSIVE IsLayout(_, _)
IsLayout(ls, secs) ==
    IF secs = <<>> THEN ls = <<>>
    ELSE IF Len(secs) = 1 THEN IsSection(ls, secs[1])
    ELSE \E k \in 1..(Len(ls) - 2) :
             /\ IsSection(SubSeq(ls, 1, k), secs[1])
             /\ TrimSpace(ls[k + 1]) = <<>>
             /\ IsLayout(SubSeq(ls, k + 2, Len(ls)), Tail(secs))

\* C26: the buffer returned by handleTidy is, in this order, the import clause
\* (`import <path>` for exactly one import line, otherwise `import (`, the
\* import lines, `)`), the declarations without the main function, and the
\* statements of main's body; empty sections are left out and two sections
\* that follow each other are separated by exactly one blank line (the lines
\* of a section are compared without the white space around them and without
\* the blank lines inside the section).
C26_TidyLayout ==
    [][(TidyBuffer /\ notice' = Note("tidied", 0))
       => LET sec == SectionsOf(FormattedOf(codeLines))
              imp == IF SolidLines(sec.imports) = <<>> THEN <<>>
                     ELSE IF Len(SolidLines(sec.imports)) = 1
                     THEN << <<"import", " ">> \o SolidLines(sec.imports)[1] >>
                     ELSE << <<"import", " ", "(">> >> \o SolidLines(sec.imports)
                          \o << <<")">> >>
          IN  IsLayout(codeLines',
                       SelectSeq(<<imp, SolidLines(sec.decls), SolidLines(sec.body)>>,
                                 LAMBDA x : x # <<>>))]_vars

====
